---- MODULE Spec2Model ----
(***************************************************************************)
(* Model of Kava-Labs/opendb: the layered option resolver, the option      *)
(* overlay applied when a RocksDB database is opened, and the metrics      *)
(* reporter goroutine started by the open.                                 *)
(*                                                                         *)
(* The specifications share the definitions:                               *)
(*   SpecResolver  rocksDBOptions.Get over arbitrary option sources        *)
(*   SpecOpen      one OpenDB call of a RocksDB database over a wide       *)
(*                 family of option sources and on-disk states             *)
(*   Spec          OpenDB calls and the reporter goroutines they start     *)
(*   SpecSequential  the OpenDB calls of Spec made one after the other     *)
(*   SpecDrift     one database and its reporter, the engine's statistics  *)
(*                 text drifting from the full one                         *)
(*   SpecLive      one database and its reporter under a fair scheduler    *)
(*   SpecParser    parseSerializedStats over every short statistics text   *)
(*   SpecTicker    one database, its close, and its reporter followed from *)
(*                 the firings of its ticker through each iteration        *)
(*   SpecDirs      OpenDB calls over two data directories, metrics enabled *)
(***************************************************************************)
EXTENDS Integers, Sequences, FiniteSets, TLC

VARIABLES
    appOpts,        \* the host application's option source: key -> value
    numCPU,         \* runtime.NumCPU()
    disk,           \* database path -> what grocksdb.LoadLatestOptions finds there
    calls,          \* OpenDB call id -> the call's position, locals and result
    rocksdbMetrics, \* the package variable rocksdbMetrics (metrics.go)
    registered,     \* number of times the gauges were constructed and registered
    reporters,      \* OpenDB call id -> the reportMetrics goroutine it started
    gauges,         \* the metrics sink: <<gauge, db_name>> -> last value set
    panicked,       \* TRUE once a goroutine panicked: the process is gone
    resolved,       \* the last rocksDBOptions.Get call and what it returned
    parsed          \* the last parseSerializedStats call and what it returned

vars == <<appOpts, numCPU, disk, calls, rocksdbMetrics, registered, reporters,
          gauges, panicked, resolved, parsed>>

(***************************************************************************)
(* Values of the option source (Go interface{}).  One record shape for     *)
(* every dynamic type: k is the dynamic type, n the number (or 1/0 for a   *)
(* bool), s the text of a string.  Nil is the nil interface.               *)
(***************************************************************************)
Nil == [k |-> "nil", n |-> 0, s |-> ""]

IntV(i) == [k |-> "int", n |-> i, s |-> ""]

BoolV(b) == [k |-> "bool", n |-> IF b THEN 1 ELSE 0, s |-> ""]

StrV(t) == [k |-> "str", n |-> 0, s |-> t]

\* strconv.ParseInt on the strings the model draws: the decimal numerals parse,
\* every other string is a syntax error.
ParseIntOK(t) == t \in {"0", "1", "5", "-1"}

ParseIntVal(t) ==
    CASE t = "0" -> 0
      [] t = "1" -> 1
      [] t = "5" -> 5
      [] t = "-1" -> 0 - 1
      [] OTHER -> 0

\* strconv.ParseBool: accepts 1, t, T, TRUE, true, True, 0, f, F, FALSE, false, False.
ParseBoolOK(t) ==
    t \in {"1", "t", "T", "TRUE", "true", "True", "0", "f", "F", "FALSE", "false", "False"}

ParseBoolVal(t) == t \in {"1", "t", "T", "TRUE", "true", "True"}

(***************************************************************************)
(* github.com/spf13/cast v1.6.0.  ToXxxE returns (value, error); ToXxx     *)
(* drops the error and returns the zero value with it.  The E forms are    *)
(* modelled as a pair of operators: XxxCoercible (err == nil) and the      *)
(* value.                                                                  *)
(***************************************************************************)
IntCoercible(v) == v.k \in {"nil", "int", "bool"} \/ (v.k = "str" /\ ParseIntOK(v.s))

ToInt(v) ==
    CASE v.k = "int" -> v.n
      [] v.k = "bool" -> v.n
      [] v.k = "str" -> IF ParseIntOK(v.s) THEN ParseIntVal(v.s) ELSE 0
      [] OTHER -> 0

ToInt64(v) == ToInt(v)

\* Floats are drawn integral, so ToFloat64 is the number itself.
ToFloat64(v) == ToInt(v)

\* ToUint64E refuses negative numbers (errNegativeNotAllowed).
Uint64Coercible(v) == IntCoercible(v) /\ ToInt(v) >= 0

ToUint64(v) == IF Uint64Coercible(v) THEN ToInt(v) ELSE 0

BoolCoercible(v) == v.k \in {"nil", "int", "bool"} \/ (v.k = "str" /\ ParseBoolOK(v.s))

ToBool(v) ==
    CASE v.k = "bool" -> v.n = 1
      [] v.k = "int" -> v.n # 0
      [] v.k = "str" -> ParseBoolOK(v.s) /\ ParseBoolVal(v.s)
      [] OTHER -> FALSE

(***************************************************************************)
(* The option source and the resolver (rocksDBOptions).                    *)
(***************************************************************************)
\* AppOptions.Get on the underlying source: nil for a key it does not hold.
AppOptsGet(src, key) == IF key \in DOMAIN src THEN src[key] ELSE Nil

\* fmt.Sprintf("rocksdb.%v.%v", dbName, key)
DbSpecificKey(dbName, key) == "rocksdb." \o dbName \o "." \o key

\* fmt.Sprintf("rocksdb.%v", key)
FallbackKey(key) == "rocksdb." \o key

newRocksDBOptions(src, dbName) == [appOpts |-> src, dbName |-> dbName]

\* Get deciding presence by truthiness: a database-specific value that is zero,
\* false or empty gives way to the fallback key.
GetTruthy(opts, key) ==
    LET specific == AppOptsGet(opts.appOpts, DbSpecificKey(opts.dbName, key))
    IN  IF specific \notin {Nil, IntV(0), BoolV(FALSE), StrV("")}
        THEN specific
        ELSE AppOptsGet(opts.appOpts, FallbackKey(key))

GetFallbackFirst(opts, key) ==
    IF AppOptsGet(opts.appOpts, FallbackKey(key)) # Nil
    THEN AppOptsGet(opts.appOpts, FallbackKey(key))
    ELSE AppOptsGet(opts.appOpts, DbSpecificKey(opts.dbName, key))

GetNoFallback(opts, key) == AppOptsGet(opts.appOpts, DbSpecificKey(opts.dbName, key))

\* rocksDBOptions.Get
Get(opts, key) ==
    IF AppOptsGet(opts.appOpts, DbSpecificKey(opts.dbName, key)) # Nil
    THEN AppOptsGet(opts.appOpts, DbSpecificKey(opts.dbName, key))
    ELSE AppOptsGet(opts.appOpts, FallbackKey(key))

(***************************************************************************)
(* Option names (the const block of opendb.go).                            *)
(***************************************************************************)
defaultBlockCacheSize == 1073741824

DefaultColumnFamilyName == "default"

enableMetricsOptName == "enable-metrics"

reportMetricsIntervalSecsOptName == "report-metrics-interval-secs"

defaultReportMetricsIntervalSecs == 15

maxOpenFilesDBOptName == "max-open-files"

maxFileOpeningThreadsDBOptName == "max-file-opening-threads"

tableCacheNumshardbitsDBOptName == "table_cache_numshardbits"

allowMMAPWritesDBOptName == "allow_mmap_writes"

allowMMAPReadsDBOptName == "allow_mmap_reads"

useFsyncDBOptName == "use_fsync"

useAdaptiveMutexDBOptName == "use_adaptive_mutex"

bytesPerSyncDBOptName == "bytes_per_sync"

maxBackgroundJobsDBOptName == "max-background-jobs"

writeBufferSizeCFOptName == "write-buffer-size"

numLevelsCFOptName == "num-levels"

maxWriteBufferNumberCFOptName == "max_write_buffer_number"

minWriteBufferNumberToMergeCFOptName == "min_write_buffer_number_to_merge"

maxBytesForLevelBaseCFOptName == "max_bytes_for_level_base"

maxBytesForLevelMultiplierCFOptName == "max_bytes_for_level_multiplier"

targetFileSizeBaseCFOptName == "target_file_size_base"

targetFileSizeMultiplierCFOptName == "target_file_size_multiplier"

level0FileNumCompactionTriggerCFOptName == "level0_file_num_compaction_trigger"

level0SlowdownWritesTriggerCFOptName == "level0_slowdown_writes_trigger"

blockCacheSizeBBTOOptName == "block_cache_size"

bitsPerKeyBBTOOptName == "bits_per_key"

blockSizeBBTOOptName == "block_size"

cacheIndexAndFilterBlocksBBTOOptName == "cache_index_and_filter_blocks"

pinL0FilterAndIndexBlocksInCacheBBTOOptName == "pin_l0_filter_and_index_blocks_in_cache"

formatVersionBBTOOptName == "format_version"

asyncIOReadOptName == "read-async-io"

(***************************************************************************)
(* Option bundles.  A grocksdb.Options is a record of the engine-level     *)
(* fields, the column-family fields, its table factory (a                  *)
(* BlockBasedTableOptions record), and the statistics / create_if_missing  *)
(* switches.  Field names are RocksDB's.                                   *)
(***************************************************************************)
DBFields ==
    {"max_open_files", "max_file_opening_threads", "table_cache_numshardbits",
     "allow_mmap_writes", "allow_mmap_reads", "use_fsync", "use_adaptive_mutex",
     "bytes_per_sync", "max_background_jobs"}

CFFields ==
    {"write_buffer_size", "num_levels", "max_write_buffer_number",
     "min_write_buffer_number_to_merge", "max_bytes_for_level_base",
     "max_bytes_for_level_multiplier", "target_file_size_base",
     "target_file_size_multiplier", "level0_file_num_compaction_trigger",
     "level0_slowdown_writes_trigger"}

OtherFields == {"table_factory", "statistics", "create_if_missing"}

OptionsFields == DBFields \cup CFFields \cup OtherFields

BBTOFields ==
    {"block_cache", "filter_policy", "block_size", "cache_index_and_filter_blocks",
     "pin_l0_filter_and_index_blocks_in_cache", "format_version"}

ReadFields == {"async_io", "verify_checksums", "fill_cache"}

\* grocksdb.NewDefaultBlockBasedTableOptions(): no block cache, no filter policy
\* (0 stands for "not set").
NewDefaultBlockBasedTableOptions ==
    [block_cache |-> 0, filter_policy |-> 0, block_size |-> 4096,
     cache_index_and_filter_blocks |-> FALSE,
     pin_l0_filter_and_index_blocks_in_cache |-> FALSE, format_version |-> 5]

\* defaultBBTO: a 1GB LRU block cache and a bloom filter of 10 bits per key.
defaultBBTO ==
    [NewDefaultBlockBasedTableOptions EXCEPT
        !.block_cache = defaultBlockCacheSize,
        !.filter_policy = 10]

\* grocksdb.NewDefaultOptions(): RocksDB's factory values.
NewDefaultOptions ==
    [max_open_files |-> 0 - 1, max_file_opening_threads |-> 16,
     table_cache_numshardbits |-> 6, allow_mmap_writes |-> FALSE,
     allow_mmap_reads |-> FALSE, use_fsync |-> FALSE, use_adaptive_mutex |-> FALSE,
     bytes_per_sync |-> 0, max_background_jobs |-> 2,
     write_buffer_size |-> 67108864, num_levels |-> 7,
     max_write_buffer_number |-> 2, min_write_buffer_number_to_merge |-> 1,
     max_bytes_for_level_base |-> 268435456, max_bytes_for_level_multiplier |-> 10,
     target_file_size_base |-> 67108864, target_file_size_multiplier |-> 1,
     level0_file_num_compaction_trigger |-> 4, level0_slowdown_writes_trigger |-> 20,
     table_factory |-> NewDefaultBlockBasedTableOptions,
     statistics |-> FALSE, create_if_missing |-> FALSE]

\* Options.SetBlockBasedTableFactory
SetBlockBasedTableFactory(o, bbto) == [o EXCEPT !.table_factory = bbto]

\* Options.EnableStatistics
EnableStatistics(o) == [o EXCEPT !.statistics = TRUE]

\* newDefaultOptions: the tm-db defaults.  IncreaseParallelism(n) sets the
\* background jobs to n; OptimizeLevelStyleCompaction(512MB) sizes the write
\* buffers and level targets from the 512MB budget.
newDefaultOptions(ncpu) ==
    [SetBlockBasedTableFactory(NewDefaultOptions, defaultBBTO) EXCEPT
        !.max_open_files = 4096,
        !.create_if_missing = TRUE,
        !.max_background_jobs = ncpu,
        !.write_buffer_size = 134217728,
        !.min_write_buffer_number_to_merge = 2,
        !.max_write_buffer_number = 6,
        !.level0_file_num_compaction_trigger = 2,
        !.target_file_size_base = 67108864,
        !.max_bytes_for_level_base = 536870912]

\* grocksdb.NewDefaultReadOptions()
NewDefaultReadOptions == [async_io |-> FALSE, verify_checksums |-> TRUE, fill_cache |-> TRUE]

(***************************************************************************)
(* The overlay: each option is overwritten only when the resolver returns  *)
(* a non-nil value for its key; the value goes through cast.ToXxx, which   *)
(* yields the zero value when the conversion fails.                        *)
(***************************************************************************)
overrideDBOptsUnguarded(dbOpts, opts) ==
    [dbOpts EXCEPT
        !.max_open_files = ToInt(Get(opts, maxOpenFilesDBOptName)),
        !.max_file_opening_threads = ToInt(Get(opts, maxFileOpeningThreadsDBOptName)),
        !.table_cache_numshardbits = ToInt(Get(opts, tableCacheNumshardbitsDBOptName)),
        !.allow_mmap_writes = ToBool(Get(opts, allowMMAPWritesDBOptName)),
        !.allow_mmap_reads = ToBool(Get(opts, allowMMAPReadsDBOptName)),
        !.use_fsync = ToBool(Get(opts, useFsyncDBOptName)),
        !.use_adaptive_mutex = ToBool(Get(opts, useAdaptiveMutexDBOptName)),
        !.bytes_per_sync = ToUint64(Get(opts, bytesPerSyncDBOptName)),
        !.max_background_jobs = ToInt(Get(opts, maxBackgroundJobsDBOptName))]

\* overrideDBOpts merges dbOpts and appOpts, appOpts takes precedence: a field is
\* set when the resolved value is not nil, and left as it is (@) otherwise.
overrideDBOpts(dbOpts, opts) ==
    LET maxOpenFiles == Get(opts, maxOpenFilesDBOptName)
        maxFileOpeningThreads == Get(opts, maxFileOpeningThreadsDBOptName)
        tableCacheNumshardbits == Get(opts, tableCacheNumshardbitsDBOptName)
        allowMMAPWrites == Get(opts, allowMMAPWritesDBOptName)
        allowMMAPReads == Get(opts, allowMMAPReadsDBOptName)
        useFsync == Get(opts, useFsyncDBOptName)
        useAdaptiveMutex == Get(opts, useAdaptiveMutexDBOptName)
        bytesPerSync == Get(opts, bytesPerSyncDBOptName)
        maxBackgroundJobs == Get(opts, maxBackgroundJobsDBOptName)
    IN  [dbOpts EXCEPT
            !.max_open_files =
                IF maxOpenFiles # Nil THEN ToInt(maxOpenFiles) ELSE @,
            !.max_file_opening_threads =
                IF maxFileOpeningThreads # Nil THEN ToInt(maxFileOpeningThreads) ELSE @,
            !.table_cache_numshardbits =
                IF tableCacheNumshardbits # Nil THEN ToInt(tableCacheNumshardbits) ELSE @,
            !.allow_mmap_writes =
                IF allowMMAPWrites # Nil THEN ToBool(allowMMAPWrites) ELSE @,
            !.allow_mmap_reads =
                IF allowMMAPReads # Nil THEN ToBool(allowMMAPReads) ELSE @,
            !.use_fsync =
                IF useFsync # Nil THEN ToBool(useFsync) ELSE @,
            !.use_adaptive_mutex =
                IF useAdaptiveMutex # Nil THEN ToBool(useAdaptiveMutex) ELSE @,
            !.bytes_per_sync =
                IF bytesPerSync # Nil THEN ToUint64(bytesPerSync) ELSE @,
            !.max_background_jobs =
                IF maxBackgroundJobs # Nil THEN ToInt(maxBackgroundJobs) ELSE @]

\* overrideCFOpts with an absent max-write-buffer-number key writing the engine's
\* factory value into the field instead of leaving it alone.
overrideCFOptsResetAbsent(cfOpts, opts) ==
    LET writeBufferSize == Get(opts, writeBufferSizeCFOptName)
        numLevels == Get(opts, numLevelsCFOptName)
        maxWriteBufferNumber == Get(opts, maxWriteBufferNumberCFOptName)
        minWriteBufferNumberToMerge == Get(opts, minWriteBufferNumberToMergeCFOptName)
        maxBytesForLevelBase == Get(opts, maxBytesForLevelBaseCFOptName)
        maxBytesForLevelMultiplier == Get(opts, maxBytesForLevelMultiplierCFOptName)
        targetFileSizeBase == Get(opts, targetFileSizeBaseCFOptName)
        targetFileSizeMultiplier == Get(opts, targetFileSizeMultiplierCFOptName)
        level0FileNumCompactionTrigger == Get(opts, level0FileNumCompactionTriggerCFOptName)
        level0SlowdownWritesTrigger == Get(opts, level0SlowdownWritesTriggerCFOptName)
    IN  [cfOpts EXCEPT
            !.write_buffer_size =
                IF writeBufferSize # Nil THEN ToUint64(writeBufferSize) ELSE @,
            !.num_levels =
                IF numLevels # Nil THEN ToInt(numLevels) ELSE @,
            !.max_write_buffer_number =
                IF maxWriteBufferNumber # Nil THEN ToInt(maxWriteBufferNumber)
                ELSE NewDefaultOptions.max_write_buffer_number,
            !.min_write_buffer_number_to_merge =
                IF minWriteBufferNumberToMerge # Nil THEN ToInt(minWriteBufferNumberToMerge) ELSE @,
            !.max_bytes_for_level_base =
                IF maxBytesForLevelBase # Nil THEN ToUint64(maxBytesForLevelBase) ELSE @,
            !.max_bytes_for_level_multiplier =
                IF maxBytesForLevelMultiplier # Nil THEN ToFloat64(maxBytesForLevelMultiplier) ELSE @,
            !.target_file_size_base =
                IF targetFileSizeBase # Nil THEN ToUint64(targetFileSizeBase) ELSE @,
            !.target_file_size_multiplier =
                IF targetFileSizeMultiplier # Nil THEN ToInt(targetFileSizeMultiplier) ELSE @,
            !.level0_file_num_compaction_trigger =
                IF level0FileNumCompactionTrigger # Nil THEN ToInt(level0FileNumCompactionTrigger) ELSE @,
            !.level0_slowdown_writes_trigger =
                IF level0SlowdownWritesTrigger # Nil THEN ToInt(level0SlowdownWritesTrigger) ELSE @]

\* overrideCFOpts merges cfOpts and appOpts, appOpts takes precedence
overrideCFOpts(cfOpts, opts) ==
    LET writeBufferSize == Get(opts, writeBufferSizeCFOptName)
        numLevels == Get(opts, numLevelsCFOptName)
        maxWriteBufferNumber == Get(opts, maxWriteBufferNumberCFOptName)
        minWriteBufferNumberToMerge == Get(opts, minWriteBufferNumberToMergeCFOptName)
        maxBytesForLevelBase == Get(opts, maxBytesForLevelBaseCFOptName)
        maxBytesForLevelMultiplier == Get(opts, maxBytesForLevelMultiplierCFOptName)
        targetFileSizeBase == Get(opts, targetFileSizeBaseCFOptName)
        targetFileSizeMultiplier == Get(opts, targetFileSizeMultiplierCFOptName)
        level0FileNumCompactionTrigger == Get(opts, level0FileNumCompactionTriggerCFOptName)
        level0SlowdownWritesTrigger == Get(opts, level0SlowdownWritesTriggerCFOptName)
    IN  [cfOpts EXCEPT
            !.write_buffer_size =
                IF writeBufferSize # Nil THEN ToUint64(writeBufferSize) ELSE @,
            !.num_levels =
                IF numLevels # Nil THEN ToInt(numLevels) ELSE @,
            !.max_write_buffer_number =
                IF maxWriteBufferNumber # Nil THEN ToInt(maxWriteBufferNumber) ELSE @,
            !.min_write_buffer_number_to_merge =
                IF minWriteBufferNumberToMerge # Nil THEN ToInt(minWriteBufferNumberToMerge) ELSE @,
            !.max_bytes_for_level_base =
                IF maxBytesForLevelBase # Nil THEN ToUint64(maxBytesForLevelBase) ELSE @,
            !.max_bytes_for_level_multiplier =
                IF maxBytesForLevelMultiplier # Nil THEN ToFloat64(maxBytesForLevelMultiplier) ELSE @,
            !.target_file_size_base =
                IF targetFileSizeBase # Nil THEN ToUint64(targetFileSizeBase) ELSE @,
            !.target_file_size_multiplier =
                IF targetFileSizeMultiplier # Nil THEN ToInt(targetFileSizeMultiplier) ELSE @,
            !.level0_file_num_compaction_trigger =
                IF level0FileNumCompactionTrigger # Nil THEN ToInt(level0FileNumCompactionTrigger) ELSE @,
            !.level0_slowdown_writes_trigger =
                IF level0SlowdownWritesTrigger # Nil THEN ToInt(level0SlowdownWritesTrigger) ELSE @]

\* readOptsFromAppOpts: the default read options, async_io overridden when present
readOptsFromAppOpts(opts) ==
    LET asyncIO == Get(opts, asyncIOReadOptName)
    IN  [NewDefaultReadOptions EXCEPT
            !.async_io =
                IF asyncIO # Nil THEN ToBool(asyncIO) ELSE @]

\* bbtoFromAppOpts: always starts from defaultBBTO; a present block_cache_size /
\* bits_per_key builds a new LRU cache / bloom filter of that size.
bbtoFromAppOpts(opts) ==
    LET blockCacheSize == Get(opts, blockCacheSizeBBTOOptName)
        bitsPerKey == Get(opts, bitsPerKeyBBTOOptName)
        blockSize == Get(opts, blockSizeBBTOOptName)
        cacheIndexAndFilterBlocks == Get(opts, cacheIndexAndFilterBlocksBBTOOptName)
        pinL0FilterAndIndexBlocksInCache == Get(opts, pinL0FilterAndIndexBlocksInCacheBBTOOptName)
        formatVersion == Get(opts, formatVersionBBTOOptName)
    IN  [defaultBBTO EXCEPT
            !.block_cache =
                IF blockCacheSize # Nil THEN ToUint64(blockCacheSize) ELSE @,
            !.filter_policy =
                IF bitsPerKey # Nil THEN ToFloat64(bitsPerKey) ELSE @,
            !.block_size =
                IF blockSize # Nil THEN ToInt(blockSize) ELSE @,
            !.cache_index_and_filter_blocks =
                IF cacheIndexAndFilterBlocks # Nil THEN ToBool(cacheIndexAndFilterBlocks) ELSE @,
            !.pin_l0_filter_and_index_blocks_in_cache =
                IF pinL0FilterAndIndexBlocksInCache # Nil THEN ToBool(pinL0FilterAndIndexBlocksInCache) ELSE @,
            !.format_version =
                IF formatVersion # Nil THEN ToInt(formatVersion) ELSE @]

(***************************************************************************)
(* Errors.  A Go error is a record: its identity (type) and, for an error  *)
(* of the engine, its message as a sequence of characters, so that         *)
(* strings.HasPrefix is computed on the text.                              *)
(***************************************************************************)
NoErr == [type |-> "nil", msg |-> <<>>]

ErrUnexpectedConfiguration == [type |-> "ErrUnexpectedConfiguration", msg |-> <<>>]

GrocksdbErr(msg) == [type |-> "grocksdb", msg |-> msg]

\* fmt.Errorf("failed to create db path: %w", err)
MkdirErr == [type |-> "failed to create db path", msg |-> <<>>]

\* the nil *grocksdb.Options / nil handle
NilOptions == [nil |-> TRUE]

\* "NotFound: "
NotFoundPrefix == <<"N", "o", "t", "F", "o", "u", "n", "d", ":", " ">>

\* strings.HasPrefix
HasPrefix(str, prefix) ==
    Len(str) >= Len(prefix) /\ SubSeq(str, 1, Len(prefix)) = prefix

\* strings.Contains
Contains(str, sub) ==
    \E i \in 1..(Len(str) - Len(sub) + 1) : SubSeq(str, i, i + Len(sub) - 1) = sub

(***************************************************************************)
(* What grocksdb.LoadLatestOptions finds at a database path: a status      *)
(* message (empty when the load succeeds) and, on success, the column      *)
(* family names with the persisted engine-level options and one options    *)
(* object per column family.                                               *)
(***************************************************************************)
\* "NotFound: none": no options file at the path, the database is not created yet
NotFoundStatus == NotFoundPrefix \o <<"n", "o", "n", "e">>

\* "IO error: x"
IOErrorStatus == <<"I", "O", " ", "e", "r", "r", "o", "r", ":", " ", "x">>

\* "Corruption: NotFound: x": not-found inside the text, not at its start
CorruptionStatus ==
    <<"C", "o", "r", "r", "u", "p", "t", "i", "o", "n", ":", " ">> \o NotFoundPrefix \o <<"x">>

OtherLoadErrors == {IOErrorStatus, CorruptionStatus}

AbsentEntry == [status |-> NotFoundStatus, cfNames |-> <<>>, dbOpts |-> NilOptions, cfOpts |-> <<>>]

UnreadableEntry(msg) == [status |-> msg, cfNames |-> <<>>, dbOpts |-> NilOptions, cfOpts |-> <<>>]

\* Engine-level options a previous run persisted: every engine-level field differs
\* from the tm-db default.  The column-family part of the object is RocksDB's default.
PersistedDBOptions ==
    [NewDefaultOptions EXCEPT
        !.max_open_files = 16384, !.max_file_opening_threads = 8,
        !.table_cache_numshardbits = 4, !.allow_mmap_writes = TRUE,
        !.allow_mmap_reads = TRUE, !.use_fsync = TRUE, !.use_adaptive_mutex = TRUE,
        !.bytes_per_sync = 1048576, !.max_background_jobs = 12,
        !.create_if_missing = TRUE]

\* The table options a previous run persisted with its column family.
PersistedBBTO ==
    [block_cache |-> defaultBlockCacheSize, filter_policy |-> 12, block_size |-> 16384,
     cache_index_and_filter_blocks |-> TRUE,
     pin_l0_filter_and_index_blocks_in_cache |-> TRUE, format_version |-> 4]

\* Options of the i-th persisted column family (they differ per column family).
PersistedCFOptions(i) ==
    [NewDefaultOptions EXCEPT
        !.write_buffer_size = 33554432 * i, !.num_levels = 3 + i,
        !.max_write_buffer_number = 8 + i, !.min_write_buffer_number_to_merge = 3,
        !.max_bytes_for_level_base = 1048576 * i, !.max_bytes_for_level_multiplier = 8,
        !.target_file_size_base = 2097152 * i, !.target_file_size_multiplier = 2,
        !.level0_file_num_compaction_trigger = 6 + i,
        !.level0_slowdown_writes_trigger = 30 + i,
        !.table_factory = PersistedBBTO]

ConfigEntry(cfNames) ==
    [status |-> <<>>, cfNames |-> cfNames, dbOpts |-> PersistedDBOptions,
     cfOpts |-> [i \in 1..Len(cfNames) |-> PersistedCFOptions(i)]]

\* The options file RocksDB writes when a database is opened: the engine-level
\* fields of dbOpts, and the column-family fields and table factory of cfOpts, for
\* the single column family "default".
PersistedEntry(dbOpts, cfOpts) ==
    [status |-> <<>>, cfNames |-> <<DefaultColumnFamilyName>>,
     dbOpts |-> [f \in OptionsFields |->
                    IF f \in DBFields \cup {"create_if_missing"}
                    THEN dbOpts[f] ELSE NewDefaultOptions[f]],
     cfOpts |-> <<[f \in OptionsFields |->
                    IF f \in CFFields \cup {"table_factory"}
                    THEN cfOpts[f] ELSE NewDefaultOptions[f]]>>]

LoadLatestOptionsAnyDefault(entry, ncpu) ==
    IF entry.status # <<>> /\ HasPrefix(entry.status, NotFoundPrefix)
    THEN [dbOpts |-> newDefaultOptions(ncpu), cfOpts |-> newDefaultOptions(ncpu), err |-> NoErr]
    ELSE IF entry.status # <<>>
    THEN [dbOpts |-> NilOptions, cfOpts |-> NilOptions, err |-> GrocksdbErr(entry.status)]
    ELSE IF ~(Len(entry.cfNames) >= 1 /\ entry.cfNames[1] = DefaultColumnFamilyName)
    THEN [dbOpts |-> NilOptions, cfOpts |-> NilOptions, err |-> ErrUnexpectedConfiguration]
    ELSE [dbOpts |-> entry.dbOpts, cfOpts |-> entry.cfOpts[1], err |-> NoErr]

LoadLatestOptionsContains(entry, ncpu) ==
    IF entry.status # <<>> /\ Contains(entry.status, NotFoundPrefix)
    THEN [dbOpts |-> newDefaultOptions(ncpu), cfOpts |-> newDefaultOptions(ncpu), err |-> NoErr]
    ELSE IF entry.status # <<>>
    THEN [dbOpts |-> NilOptions, cfOpts |-> NilOptions, err |-> GrocksdbErr(entry.status)]
    ELSE IF ~(Len(entry.cfNames) = 1 /\ entry.cfNames[1] = DefaultColumnFamilyName)
    THEN [dbOpts |-> NilOptions, cfOpts |-> NilOptions, err |-> ErrUnexpectedConfiguration]
    ELSE [dbOpts |-> entry.dbOpts, cfOpts |-> entry.cfOpts[1], err |-> NoErr]

\* LoadLatestOptions: entry is what grocksdb.LoadLatestOptions returns for the path.
LoadLatestOptions(entry, ncpu) ==
    IF entry.status # <<>> /\ HasPrefix(entry.status, NotFoundPrefix)
    THEN [dbOpts |-> newDefaultOptions(ncpu), cfOpts |-> newDefaultOptions(ncpu), err |-> NoErr]
    ELSE IF entry.status # <<>>
    THEN [dbOpts |-> NilOptions, cfOpts |-> NilOptions, err |-> GrocksdbErr(entry.status)]
    ELSE IF ~(Len(entry.cfNames) = 1 /\ entry.cfNames[1] = DefaultColumnFamilyName)
    THEN [dbOpts |-> NilOptions, cfOpts |-> NilOptions, err |-> ErrUnexpectedConfiguration]
    ELSE [dbOpts |-> entry.dbOpts, cfOpts |-> entry.cfOpts[1], err |-> NoErr]

\* Metrics on unless enable-metrics turns them off
enableMetricsDefaultOn(opts) ==
    Get(opts, enableMetricsOptName) = Nil \/ ToBool(Get(opts, enableMetricsOptName))

\* openRocksdb, enableMetrics: the cast of what enable-metrics resolves to
enableMetrics(opts) == ToBool(Get(opts, enableMetricsOptName))

reportMetricsIntervalSecsNoDefault(opts) ==
    ToInt64(Get(opts, reportMetricsIntervalSecsOptName))

\* openRocksdb, the reporting interval: 15 when the configured value casts to 0
reportMetricsIntervalSecs(opts) ==
    LET secs == ToInt64(Get(opts, reportMetricsIntervalSecsOptName))
    IN  IF secs = 0 THEN defaultReportMetricsIntervalSecs ELSE secs

\* The objects the n-th call of bbtoFromAppOpts in an open returns and allocates:
\* the table options, and the block cache and filter policy set in them, each
\* named by the call and by the function that constructed it (bbtoFromAppOpts
\* when the key is present, defaultBBTO otherwise).
bbtoObjects(opts, n) ==
    [bbto |-> n,
     block_cache |-> <<n, IF Get(opts, blockCacheSizeBBTOOptName) # Nil
                          THEN "bbtoFromAppOpts" ELSE "defaultBBTO">>,
     filter_policy |-> <<n, IF Get(opts, bitsPerKeyBBTOOptName) # Nil
                            THEN "bbtoFromAppOpts" ELSE "defaultBBTO">>]

\* openRocksdb building the table options once per bundle
openRocksdbTwoTables(entry, ncpu, opts) ==
    LET loaded == LoadLatestOptions(entry, ncpu)
    IN  IF loaded.err # NoErr
        THEN [err |-> loaded.err, loaded |-> loaded, bbto |-> NilOptions,
              tables |-> NilOptions,
              dbOpts |-> NilOptions, cfOpts |-> NilOptions, readOpts |-> NilOptions,
              enableMetrics |-> FALSE, interval |-> 0]
        ELSE LET bbtoOpts == bbtoFromAppOpts(opts)
                 dbOpts0 == SetBlockBasedTableFactory(loaded.dbOpts, bbtoOpts)
                 cfOpts0 == SetBlockBasedTableFactory(loaded.cfOpts, bbtoFromAppOpts(opts))
             IN  [err |-> NoErr, loaded |-> loaded, bbto |-> bbtoOpts,
                  tables |-> [dbOpts |-> bbtoObjects(opts, 1),
                              cfOpts |-> bbtoObjects(opts, 2)],
                  dbOpts |-> overrideDBOpts(dbOpts0, opts),
                  cfOpts |-> overrideCFOpts(cfOpts0, opts),
                  readOpts |-> readOptsFromAppOpts(opts),
                  enableMetrics |-> enableMetrics(opts),
                  interval |-> reportMetricsIntervalSecs(opts)]

\* openRocksdb with the overlay applied only to a database that is being created:
\* for an existing database the loaded options are handed over as they are.
openRocksdbCreateOnly(entry, ncpu, opts) ==
    LET loaded == LoadLatestOptions(entry, ncpu)
    IN  IF loaded.err # NoErr
        THEN [err |-> loaded.err, loaded |-> loaded, bbto |-> NilOptions,
              tables |-> NilOptions,
              dbOpts |-> NilOptions, cfOpts |-> NilOptions, readOpts |-> NilOptions,
              enableMetrics |-> FALSE, interval |-> 0]
        ELSE LET bbtoOpts == bbtoFromAppOpts(opts)
                 dbOpts0 == SetBlockBasedTableFactory(loaded.dbOpts, bbtoOpts)
                 cfOpts0 == SetBlockBasedTableFactory(loaded.cfOpts, bbtoOpts)
                 created == entry.status # <<>>
             IN  [err |-> NoErr, loaded |-> loaded, bbto |-> bbtoOpts,
                  tables |-> [dbOpts |-> bbtoObjects(opts, 1),
                              cfOpts |-> bbtoObjects(opts, 1)],
                  dbOpts |-> IF created THEN overrideDBOpts(dbOpts0, opts) ELSE dbOpts0,
                  cfOpts |-> IF created THEN overrideCFOpts(cfOpts0, opts) ELSE cfOpts0,
                  readOpts |-> readOptsFromAppOpts(opts),
                  enableMetrics |-> enableMetrics(opts),
                  interval |-> reportMetricsIntervalSecs(opts)]

\* openRocksdb up to the call of newRocksDBWithOptions: the options and settings
\* it hands over, or the error it returns.
openRocksdb(entry, ncpu, opts) ==
    LET loaded == LoadLatestOptions(entry, ncpu)
    IN  IF loaded.err # NoErr
        THEN [err |-> loaded.err, loaded |-> loaded, bbto |-> NilOptions,
              tables |-> NilOptions,
              dbOpts |-> NilOptions, cfOpts |-> NilOptions, readOpts |-> NilOptions,
              enableMetrics |-> FALSE, interval |-> 0]
        ELSE LET bbtoOpts == bbtoFromAppOpts(opts)
                 dbOpts0 == SetBlockBasedTableFactory(loaded.dbOpts, bbtoOpts)
                 cfOpts0 == SetBlockBasedTableFactory(loaded.cfOpts, bbtoOpts)
             IN  [err |-> NoErr, loaded |-> loaded, bbto |-> bbtoOpts,
                  tables |-> [dbOpts |-> bbtoObjects(opts, 1),
                              cfOpts |-> bbtoObjects(opts, 1)],
                  dbOpts |-> overrideDBOpts(dbOpts0, opts),
                  cfOpts |-> overrideCFOpts(cfOpts0, opts),
                  readOpts |-> readOptsFromAppOpts(opts),
                  enableMetrics |-> enableMetrics(opts),
                  interval |-> reportMetricsIntervalSecs(opts)]

(***************************************************************************)
(* Bounds and the sets the inputs are drawn from.                          *)
(***************************************************************************)
\* OpenDB calls the application makes
MaxCalls == 2

\* column families a persisted configuration may describe
MaxCF == 2

\* timer ticks a reporter goroutine is followed for
MaxTicks == 3

\* largest figure the engine reports for a property or statistic
MaxSample == 1

\* Lines of a statistics text handed to the parser
MaxLines == 3

\* firings of a reporter's ticker that are followed
MaxFires == 4

Callers == 1..MaxCalls

DBNames == {"application", "blockstore"}

\* The data directories an application may hand to OpenDB; the ones it has are
\* those of the paths of disk.
Dirs == {"data", "snapshots"}

CPUCounts == {8}

Backends == {"rocksdb", "goleveldb"}

\* filepath.Join(dir, dbName+".db")
DBPath(dir, dbName) == dir \o "/" \o dbName \o ".db"

PathsOf(dirs) == {DBPath(dir, d) : dir \in dirs, d \in DBNames}

Paths == PathsOf({"data"})

SupportedKeys ==
    {enableMetricsOptName, reportMetricsIntervalSecsOptName,
     maxOpenFilesDBOptName, maxFileOpeningThreadsDBOptName,
     tableCacheNumshardbitsDBOptName, allowMMAPWritesDBOptName,
     allowMMAPReadsDBOptName, useFsyncDBOptName, useAdaptiveMutexDBOptName,
     bytesPerSyncDBOptName, maxBackgroundJobsDBOptName,
     writeBufferSizeCFOptName, numLevelsCFOptName, maxWriteBufferNumberCFOptName,
     minWriteBufferNumberToMergeCFOptName, maxBytesForLevelBaseCFOptName,
     maxBytesForLevelMultiplierCFOptName, targetFileSizeBaseCFOptName,
     targetFileSizeMultiplierCFOptName, level0FileNumCompactionTriggerCFOptName,
     level0SlowdownWritesTriggerCFOptName,
     blockCacheSizeBBTOOptName, bitsPerKeyBBTOOptName, blockSizeBBTOOptName,
     cacheIndexAndFilterBlocksBBTOOptName,
     pinL0FilterAndIndexBlocksInCacheBBTOOptName, formatVersionBBTOOptName,
     asyncIOReadOptName}

\* Values a configuration file can give an option: numbers (zero, positive,
\* negative), a numeric and a non-numeric string, booleans.
OpenValues == {IntV(5), IntV(0), IntV(0 - 1), StrV("1"), StrV("abc"), BoolV(TRUE)}

\* Column family name lists of a persisted configuration, up to MaxCF names.
CFNameLists ==
    UNION {[1..n -> {DefaultColumnFamilyName, "other"}] : n \in 0..MaxCF}

DiskEntries ==
    {AbsentEntry} \cup {UnreadableEntry(m) : m \in OtherLoadErrors}
        \cup {ConfigEntry(names) : names \in CFNameLists}

(***************************************************************************)
(* State of an OpenDB call and of the reporter goroutine it starts.        *)
(***************************************************************************)
\* latestOpts is what grocksdb.LoadLatestOptions returned to the call, loaded what
\* LoadLatestOptions made of it; dbOpts, cfOpts and readOpts are the options the
\* engine is opened with.  engineOpen is whether grocksdb.OpenDbColumnFamilies was
\* invoked and engineErr the error it returned; err is what OpenDB returns.
\* firedAtClose is how often the reporter's ticker had fired when the database
\* was closed.
NewCall(dir, dbName, backend, pc) ==
    [pc |-> pc, dir |-> dir, dbName |-> dbName, backend |-> backend,
     latestOpts |-> AbsentEntry,
     loaded |-> [dbOpts |-> NilOptions, cfOpts |-> NilOptions, err |-> NoErr],
     bbto |-> NilOptions, tables |-> NilOptions,
     dbOpts |-> NilOptions, cfOpts |-> NilOptions,
     readOpts |-> NilOptions, enableMetrics |-> FALSE, interval |-> 0,
     err |-> NoErr, engineOpen |-> FALSE, engineErr |-> NoErr, opened |-> FALSE,
     closed |-> FALSE, firedAtClose |-> 0]

\* pending is the number of ticks buffered in ticker.C; fired counts the firings of
\* the ticker, started the iterations of the loop begun and ticks those completed.
NoReporter ==
    [pc |-> "none", dbName |-> "", interval |-> 0, pending |-> 0, fired |-> 0,
     started |-> 0, ticks |-> 0, outcome |-> "none",
     failsBefore |-> 0, fails |-> 0, sample |-> 0, lacking |-> {}]

(***************************************************************************)
(* Metrics (metrics.go).  A gauge is named by its field of the Metrics     *)
(* struct; GaugeSource gives, per gauge, the field of props or stats that  *)
(* Metrics.report sets it from.                                            *)
(***************************************************************************)
PropsFields ==
    {"EstimateNumKeys", "BlockCacheUsage", "EstimateTableReadersMem",
     "CurSizeAllMemTables", "BlockCachePinnedUsage"}

StatCounters ==
    {"NumberKeysWritten", "NumberKeysRead", "NumberKeysUpdated", "NumberFileOpens",
     "NumberFileErrors", "BlockCacheMiss", "BlockCacheHit", "BlockCacheAdd",
     "BlockCacheAddFailures", "BlockCacheIndexMiss", "BlockCacheIndexHit",
     "BlockCacheIndexBytesInsert", "BlockCacheFilterMiss", "BlockCacheFilterHit",
     "BlockCacheFilterBytesInsert", "BlockCacheDataMiss", "BlockCacheDataHit",
     "BlockCacheDataBytesInsert", "StallMicros", "BloomFilterUseful",
     "BloomFilterFullPositive", "BloomFilterFullTruePositive", "LastLevelReadBytes",
     "LastLevelReadCount", "NonLastLevelReadBytes", "NonLastLevelReadCount", "GetHitL0",
     "GetHitL1", "GetHitL2AndUp"}

StatHistograms == {"DBGetMicros", "DBWriteMicros", "DBWriteStallHistogram"}

GaugeSource ==
    [NumberKeysWritten |-> <<"stats", "NumberKeysWritten">>,
     NumberKeysRead |-> <<"stats", "NumberKeysRead">>,
     NumberKeysUpdated |-> <<"stats", "NumberKeysUpdated">>,
     EstimateNumKeys |-> <<"props", "EstimateNumKeys">>,
     NumberFileOpens |-> <<"stats", "NumberFileOpens">>,
     NumberFileErrors |-> <<"stats", "NumberFileErrors">>,
     BlockCacheUsage |-> <<"props", "BlockCacheUsage">>,
     EstimateTableReadersMem |-> <<"props", "EstimateTableReadersMem">>,
     CurSizeAllMemTables |-> <<"props", "CurSizeAllMemTables">>,
     BlockCachePinnedUsage |-> <<"props", "BlockCachePinnedUsage">>,
     BlockCacheMiss |-> <<"stats", "BlockCacheMiss">>,
     BlockCacheHit |-> <<"stats", "BlockCacheHit">>,
     BlockCacheAdd |-> <<"stats", "BlockCacheAdd">>,
     BlockCacheAddFailures |-> <<"stats", "BlockCacheAddFailures">>,
     BlockCacheIndexMiss |-> <<"stats", "BlockCacheIndexMiss">>,
     BlockCacheIndexHit |-> <<"stats", "BlockCacheIndexHit">>,
     BlockCacheIndexBytesInsert |-> <<"stats", "BlockCacheIndexBytesInsert">>,
     BlockCacheFilterMiss |-> <<"stats", "BlockCacheFilterMiss">>,
     BlockCacheFilterHit |-> <<"stats", "BlockCacheFilterHit">>,
     BlockCacheFilterBytesInsert |-> <<"stats", "BlockCacheFilterBytesInsert">>,
     BlockCacheDataMiss |-> <<"stats", "BlockCacheDataMiss">>,
     BlockCacheDataHit |-> <<"stats", "BlockCacheDataHit">>,
     BlockCacheDataBytesInsert |-> <<"stats", "BlockCacheDataBytesInsert">>,
     DBGetMicrosP50 |-> <<"stats", "DBGetMicros", "P50">>,
     DBGetMicrosP95 |-> <<"stats", "DBGetMicros", "P95">>,
     DBGetMicrosP99 |-> <<"stats", "DBGetMicros", "P99">>,
     DBGetMicrosP100 |-> <<"stats", "DBGetMicros", "P100">>,
     DBGetMicrosCount |-> <<"stats", "DBGetMicros", "Count">>,
     DBWriteMicrosP50 |-> <<"stats", "DBWriteMicros", "P50">>,
     DBWriteMicrosP95 |-> <<"stats", "DBWriteMicros", "P95">>,
     DBWriteMicrosP99 |-> <<"stats", "DBWriteMicros", "P99">>,
     DBWriteMicrosP100 |-> <<"stats", "DBWriteMicros", "P100">>,
     DBWriteMicrosCount |-> <<"stats", "DBWriteMicros", "Count">>,
     StallMicros |-> <<"stats", "StallMicros">>,
     DBWriteStallP50 |-> <<"stats", "DBWriteStallHistogram", "P50">>,
     DBWriteStallP95 |-> <<"stats", "DBWriteStallHistogram", "P95">>,
     DBWriteStallP99 |-> <<"stats", "DBWriteStallHistogram", "P99">>,
     DBWriteStallP100 |-> <<"stats", "DBWriteStallHistogram", "P100">>,
     DBWriteStallCount |-> <<"stats", "DBWriteStallHistogram", "Count">>,
     DBWriteStallSum |-> <<"stats", "DBWriteStallHistogram", "Sum">>,
     BloomFilterUseful |-> <<"stats", "BloomFilterUseful">>,
     BloomFilterFullPositive |-> <<"stats", "BloomFilterFullPositive">>,
     BloomFilterFullTruePositive |-> <<"stats", "BloomFilterFullTruePositive">>,
     LastLevelReadBytes |-> <<"stats", "LastLevelReadBytes">>,
     LastLevelReadCount |-> <<"stats", "LastLevelReadCount">>,
     NonLastLevelReadBytes |-> <<"stats", "NonLastLevelReadBytes">>,
     NonLastLevelReadCount |-> <<"stats", "NonLastLevelReadCount">>,
     GetHitL0 |-> <<"stats", "GetHitL0">>,
     GetHitL1 |-> <<"stats", "GetHitL1">>,
     GetHitL2AndUp |-> <<"stats", "GetHitL2AndUp">>]

GaugeNames == DOMAIN GaugeSource

Series == GaugeNames \X DBNames

Unset == [set |-> FALSE, v |-> 0]

\* Metrics.report with the gauges set without the db_name label: every series of
\* a gauge takes the figure.
reportUnlabelled(sink, dbName, props, stats) ==
    [g \in DOMAIN sink |->
        LET from == GaugeSource[g[1]]
        IN  [set |-> TRUE,
             v |-> IF from[1] = "props" THEN props[from[2]]
                   ELSE IF Len(from) = 2 THEN stats[from[2]]
                   ELSE stats[from[2]][from[3]]]]

\* Metrics.report: every gauge of the struct is set, labelled db_name = dbName.
report(sink, dbName, props, stats) ==
    [g \in DOMAIN sink |->
        IF g[2] = dbName
        THEN LET from == GaugeSource[g[1]]
             IN  [set |-> TRUE,
                  v |-> IF from[1] = "props" THEN props[from[2]]
                        ELSE IF Len(from) = 2 THEN stats[from[2]]
                        ELSE stats[from[2]][from[3]]]
        ELSE sink[g]]

(***************************************************************************)
(* The serialized statistics text (rocksdb.options-statistics).  A text is *)
(* a sequence of lines and a line the sequence of its whitespace-separated *)
(* tokens, so a blank line is <<>>.  A counter line reads                  *)
(*     <name> COUNT : <int>                                                *)
(* and a histogram line                                                    *)
(*     <name> P50 : <f> P95 : <f> P99 : <f> P100 : <f> COUNT : <int>       *)
(* with SUM : <int> after it when the engine reports the sum.              *)
(***************************************************************************)
Numerals == <<"0", "1", "2", "3", "4", "5", "6", "7", "8", "9">>

FormatUint(n) == Numerals[n + 1]

ParseUintOK(t) == \E i \in DOMAIN Numerals : Numerals[i] = t

ParseUintVal(t) == (CHOOSE i \in DOMAIN Numerals : Numerals[i] = t) - 1

CounterLine(name, n) == <<name, "COUNT", ":", FormatUint(n)>>

HistogramLine(name, n, withSum) ==
    <<name, "P50", ":", FormatUint(n), "P95", ":", FormatUint(n), "P99", ":",
      FormatUint(n), "P100", ":", FormatUint(n), "COUNT", ":", FormatUint(n)>>
        \o (IF withSum THEN <<"SUM", ":", FormatUint(n)>> ELSE <<>>)

\* The keys of a line's "KEY : value" fields, in order; <<>> when the
\* tokens after the name are not such fields or a value is no number.
LineKeys(line) ==
    IF Len(line) < 4 \/ (Len(line) - 1) % 3 # 0
    THEN <<>>
    ELSE IF \A i \in 1..((Len(line) - 1) \div 3) :
                line[3 * i] = ":" /\ ParseUintOK(line[3 * i + 1])
         THEN [i \in 1..((Len(line) - 1) \div 3) |-> line[3 * i - 1]]
         ELSE <<>>

LineValue(line, key) ==
    ParseUintVal(line[(CHOOSE i \in 1..((Len(line) - 1) \div 3) : line[3 * i - 1] = key)
                          * 3 + 1])

MalformedStat == [type |-> "MalformedStats", msg |-> <<>>]

\* One line as a StatEntry: a counter, a histogram whose Sum is <<>> when
\* the line carries no SUM, or an error for a line of neither shape.
parseSerializedStat(line) ==
    LET keys == LineKeys(line)
    IN  IF keys = <<"COUNT">>
        THEN [name |-> line[1], err |-> NoErr,
              entry |-> [kind |-> "counter", Count |-> LineValue(line, "COUNT")]]
        ELSE IF keys \in {<<"P50", "P95", "P99", "P100", "COUNT">>,
                         <<"P50", "P95", "P99", "P100", "COUNT", "SUM">>}
        THEN [name |-> line[1], err |-> NoErr,
              entry |-> [kind |-> "histogram",
                         P50 |-> LineValue(line, "P50"), P95 |-> LineValue(line, "P95"),
                         P99 |-> LineValue(line, "P99"), P100 |-> LineValue(line, "P100"),
                         Count |-> LineValue(line, "COUNT"),
                         Sum |-> IF keys[Len(keys)] # "SUM" THEN <<>>
                                 ELSE <<LineValue(line, "SUM")>>]]
        ELSE [name |-> "", err |-> MalformedStat, entry |-> NilOptions]

\* The entries of the first i lines; a name reported twice keeps its last line
RECURSIVE StatEntries(_, _)
StatEntries(text, i) ==
    IF i = 0
    THEN <<>>
    ELSE LET stat == parseSerializedStat(text[i])
         IN  IF stat.err = NoErr
             THEN (stat.name :> stat.entry) @@ StatEntries(text, i - 1)
             ELSE StatEntries(text, i - 1)

\* The stricter parser: the first line of neither shape fails the whole text.
parseSerializedStatsStrict(text) ==
    IF \E i \in DOMAIN text : text[i] # <<>> /\ parseSerializedStat(text[i]).err # NoErr
    THEN [statMap |-> NilOptions, err |-> MalformedStat]
    ELSE [statMap |-> StatEntries(text, Len(text)), err |-> NoErr]

\* parseSerializedStats: the statistics text as a map from statistic name to
\* StatEntry.  Blank lines and lines of neither shape are skipped, and a text
\* with lines in it of which none has a shape fails with MalformedStats.
parseSerializedStats(text) ==
    IF /\ \E i \in DOMAIN text : text[i] # <<>>
       /\ \A i \in DOMAIN text : parseSerializedStat(text[i]).err # NoErr
    THEN [statMap |-> NilOptions, err |-> MalformedStat]
    ELSE [statMap |-> StatEntries(text, Len(text)), err |-> NoErr]

(***************************************************************************)
(* One sampling of the engine by a reporter.  A read is what the engine    *)
(* answers on this tick: whether the property reads fail, the figure v it  *)
(* reports for every property, and the statistics text.  The statistics    *)
(* loader fills numeric fields (Metrics.report converts each of them with  *)
(* float64), so for a statistic the text lacks it either fails or leaves   *)
(* the field zero; which of the two is the read's "missing".               *)
(***************************************************************************)
Statistics == StatCounters \cup StatHistograms

RECURSIVE SetToSeq(_)
SetToSeq(S) ==
    IF S = {} THEN <<>>
    ELSE LET x == CHOOSE y \in S : TRUE IN <<x>> \o SetToSeq(S \ {x})

\* The text of an engine that reports every statistic as n
FullText ==
    [n \in 0..MaxSample |->
        LET order == SetToSeq(Statistics)
        IN  [i \in DOMAIN order |->
                IF order[i] \in StatHistograms THEN HistogramLine(order[i], n, TRUE)
                ELSE CounterLine(order[i], n)]]

\* The text without the line of statistic f
TextWithout(text, f) == SelectSeq(text, LAMBDA line : line[1] # f)

Read(fail, v, text, missing) == [fail |-> fail, v |-> v, text |-> text, missing |-> missing]

\* The reads of an engine whose text carries every statistic, and the three
\* ways a sampling fails: the property reads, the parser, the loader.
Reads ==
    UNION {{Read("none", v, FullText[v], "error"),
            Read("props", v, FullText[v], "error"),
            Read("none", v, << <<"**", "DB", "Stats", "**">> >>, "error"),
            Read("none", v, TextWithout(FullText[v], "NumberKeysRead"), "error")} :
           v \in 0..MaxSample}

\* A line of neither shape, and a well-formed line of a statistic that
\* Metrics does not publish
MalformedLine == <<"rocksdb.compaction.key.drop.new", "COUNT", ":", "n/a">>

UnknownLine == CounterLine("rocksdb.number.superversion_acquires", 7)

InsertAt(text, i, line) == SubSeq(text, 1, i) \o <<line>> \o SubSeq(text, i + 1, Len(text))

TextWithoutSum(text, f) ==
    [i \in DOMAIN text |-> IF text[i][1] = f THEN SubSeq(text[i], 1, Len(text[i]) - 3)
                           ELSE text[i]]

\* The reads of an engine whose text drifts from the full one while both
\* reads succeed: a line of neither shape or an unknown statistic between two
\* lines, a statistic or the SUM of a histogram gone.
DriftReads ==
    UNION {{Read("none", v, InsertAt(FullText[v], 1, MalformedLine), "error"),
            Read("none", v, InsertAt(FullText[v], 1, UnknownLine), "error"),
            Read("none", v, TextWithout(FullText[v], "NumberKeysRead"), "zero"),
            Read("none", v, TextWithoutSum(FullText[v], "DBWriteStallHistogram"), "error"),
            Read("none", v, TextWithoutSum(FullText[v], "DBWriteStallHistogram"), "zero")} :
           v \in 0..MaxSample}

LoaderErr(stage) == [type |-> stage, msg |-> <<>>]

\* parseSerializedStats of every text a reporter is handed, computed once
StatMaps ==
    [text \in {read.text : read \in Reads \cup DriftReads} |-> parseSerializedStats(text)]

\* propsLoader.load: the named properties and the serialized statistics text
propsLoaderLoad(read) ==
    IF read.fail = "props"
    THEN [props |-> NilOptions, err |-> LoaderErr("props")]
    ELSE [props |-> [f \in PropsFields \cup {"OptionsStatistics"} |->
                        IF f = "OptionsStatistics" THEN read.text ELSE read.v],
          err |-> NoErr]

\* What the text lacks of what the loader reads: <<f>> for a statistic with no
\* entry of its kind, <<f, "Sum">> for a histogram whose line carried no SUM.
Lacking(statMap) ==
    {<<f>> : f \in {f \in Statistics :
                \/ f \notin DOMAIN statMap
                \/ statMap[f].kind # (IF f \in StatHistograms THEN "histogram"
                                      ELSE "counter")}}
    \cup {<<f, "Sum">> : f \in {f \in StatHistograms \cap DOMAIN statMap :
                                  statMap[f].kind = "histogram" /\ statMap[f].Sum = <<>>}}

\* What a text that parses lacks
TextLacks ==
    [text \in DOMAIN StatMaps |->
        IF StatMaps[text].err = NoErr THEN Lacking(StatMaps[text].statMap) ELSE {}]

\* statLoader.load: the typed statistics, or an error
statLoaderLoad(statMap, missing) ==
    IF Lacking(statMap) # {} /\ missing = "error"
    THEN [stats |-> NilOptions, err |-> LoaderErr("stats")]
    ELSE [stats |-> [f \in Statistics |->
                        IF f \in StatHistograms
                        THEN IF f \in DOMAIN statMap /\ statMap[f].kind = "histogram"
                             THEN [P50 |-> statMap[f].P50, P95 |-> statMap[f].P95,
                                   P99 |-> statMap[f].P99, P100 |-> statMap[f].P100,
                                   Count |-> statMap[f].Count,
                                   Sum |-> IF statMap[f].Sum = <<>> THEN 0
                                           ELSE statMap[f].Sum[1]]
                             ELSE [P50 |-> 0, P95 |-> 0, P99 |-> 0, P100 |-> 0,
                                   Count |-> 0, Sum |-> 0]
                        ELSE IF f \in DOMAIN statMap /\ statMap[f].kind = "counter"
                             THEN statMap[f].Count
                             ELSE 0],
          err |-> NoErr]

\* getPropsAndStats
getPropsAndStats(read) ==
    LET p == propsLoaderLoad(read)
    IN  IF p.err # NoErr
        THEN [props |-> NilOptions, stats |-> NilOptions, err |-> p.err]
        ELSE LET m == StatMaps[p.props.OptionsStatistics]
             IN  IF m.err # NoErr
                 THEN [props |-> NilOptions, stats |-> NilOptions, err |-> m.err]
                 ELSE LET s == statLoaderLoad(m.statMap, read.missing)
                      IN  IF s.err # NoErr
                          THEN [props |-> NilOptions, stats |-> NilOptions, err |-> s.err]
                          ELSE [props |-> p.props, stats |-> s.stats, err |-> NoErr]

\* What the last parseSerializedStats call was given and returned
NotParsed == [done |-> FALSE, text |-> <<>>, statMap |-> NilOptions, err |-> NoErr]

(***************************************************************************)
(* newRocksDBWithOptions up to the engine open.  mkdirOK is whether        *)
(* os.MkdirAll succeeds, engineStatus the status of                        *)
(* grocksdb.OpenDbColumnFamilies (empty when it succeeds).                 *)
(***************************************************************************)
EngineStatuses == {<<>>, IOErrorStatus}

\* The data directories of the application
DataDirs == {dir \in Dirs : PathsOf({dir}) \subseteq DOMAIN disk}

\* The engine holds the lock of a database from its open to its close, and an open
\* of a path whose lock is held fails.
LockHeld(path) ==
    \E d \in Callers :
        /\ calls[d].backend = "rocksdb" /\ calls[d].opened /\ ~calls[d].closed
        /\ DBPath(calls[d].dir, calls[d].dbName) = path

\* newRocksDBWithOptions wrapping the error of the engine open as it wraps the
\* error of os.MkdirAll
newRocksDBWithOptionsWrapped(r, mkdirOK, engineStatus) ==
    IF ~mkdirOK
    THEN [err |-> MkdirErr, dbOpts |-> r.dbOpts, engineOpen |-> FALSE, opened |-> FALSE]
    ELSE LET dbOpts == IF r.enableMetrics THEN EnableStatistics(r.dbOpts) ELSE r.dbOpts
         IN  IF engineStatus # <<>>
             THEN [err |-> [type |-> "failed to open db", msg |-> engineStatus],
                   dbOpts |-> dbOpts, engineOpen |-> TRUE, opened |-> FALSE]
             ELSE [err |-> NoErr, dbOpts |-> dbOpts, engineOpen |-> TRUE,
                   opened |-> TRUE]

newRocksDBWithOptions(r, mkdirOK, engineStatus) ==
    IF ~mkdirOK
    THEN [err |-> MkdirErr, dbOpts |-> r.dbOpts, engineOpen |-> FALSE, opened |-> FALSE]
    ELSE LET dbOpts == IF r.enableMetrics THEN EnableStatistics(r.dbOpts) ELSE r.dbOpts
         IN  IF engineStatus # <<>>
             THEN [err |-> GrocksdbErr(engineStatus), dbOpts |-> dbOpts,
                   engineOpen |-> TRUE, opened |-> FALSE]
             ELSE [err |-> NoErr, dbOpts |-> dbOpts, engineOpen |-> TRUE,
                   opened |-> TRUE]

(***************************************************************************)
(* Actions: an OpenDB call.                                                *)
(***************************************************************************)
\* OpenDB with the RocksDB backend: openRocksdb, then newRocksDBWithOptions through
\* the engine open.  With metrics enabled the call goes on to registerMetrics.
OpenRocksdb(c) ==
    /\ ~panicked
    /\ calls[c].pc = "ready"
    /\ \E dir \in DataDirs, dbName \in DBNames :
          \E r \in {openRocksdb(disk[DBPath(dir, dbName)], numCPU,
                                newRocksDBOptions(appOpts, dbName))} :
          LET path == DBPath(dir, dbName)
              call == [NewCall(dir, dbName, "rocksdb", "done") EXCEPT
                          !.latestOpts = disk[path], !.loaded = r.loaded,
                          !.bbto = r.bbto, !.tables = r.tables, !.dbOpts = r.dbOpts,
                          !.cfOpts = r.cfOpts, !.readOpts = r.readOpts,
                          !.enableMetrics = r.enableMetrics, !.interval = r.interval,
                          !.err = r.err]
          IN  IF r.err # NoErr
              THEN /\ calls' = [calls EXCEPT ![c] = call]
                   /\ UNCHANGED disk
              ELSE \E mkdirOK \in BOOLEAN,
                      engineStatus \in IF LockHeld(path) THEN {IOErrorStatus}
                                       ELSE EngineStatuses :
                   \E n \in {newRocksDBWithOptions(r, mkdirOK, engineStatus)} :
                       /\ calls' = [calls EXCEPT ![c] =
                              [call EXCEPT
                                  !.dbOpts = n.dbOpts, !.err = n.err,
                                  !.engineOpen = n.engineOpen,
                                  !.engineErr = IF n.engineOpen /\ engineStatus # <<>>
                                                THEN GrocksdbErr(engineStatus)
                                                ELSE NoErr,
                                  !.opened = n.opened,
                                  !.pc = IF n.opened /\ r.enableMetrics
                                         THEN "registerMetrics" ELSE "done"]]
                       /\ disk' = IF n.opened
                                  THEN [disk EXCEPT ![path] = PersistedEntry(n.dbOpts, r.cfOpts)]
                                  ELSE disk
    /\ UNCHANGED <<appOpts, numCPU, rocksdbMetrics, registered, reporters, gauges,
                   panicked, resolved, parsed>>

\* OpenDB with any other backend: dbm.NewDB, which succeeds or fails.
OpenOtherBackend(c) ==
    /\ ~panicked
    /\ calls[c].pc = "ready"
    /\ \E dir \in DataDirs, dbName \in DBNames, backend \in Backends \ {"rocksdb"},
          ok \in BOOLEAN :
          calls' = [calls EXCEPT ![c] =
                      [NewCall(dir, dbName, backend, "done") EXCEPT
                          !.err = IF ok THEN NoErr ELSE [type |-> "dbm", msg |-> <<>>],
                          !.opened = ok]]
    /\ UNCHANGED <<appOpts, numCPU, disk, rocksdbMetrics, registered, reporters,
                   gauges, panicked, resolved, parsed>>

\* registerMetrics without the test of rocksdbMetrics: every call constructs.
RegisterMetricsCheckAlways(c) ==
    /\ ~panicked
    /\ calls[c].pc = "registerMetrics"
    /\ calls' = [calls EXCEPT ![c].pc = "construct"]
    /\ UNCHANGED <<appOpts, numCPU, disk, rocksdbMetrics, registered, reporters,
                   gauges, panicked, resolved, parsed>>

\* registerMetrics, the test of rocksdbMetrics
RegisterMetricsCheck(c) ==
    /\ ~panicked
    /\ calls[c].pc = "registerMetrics"
    /\ calls' = [calls EXCEPT ![c].pc = IF rocksdbMetrics # 0 THEN "go" ELSE "construct"]
    /\ UNCHANGED <<appOpts, numCPU, disk, rocksdbMetrics, registered, reporters,
                   gauges, panicked, resolved, parsed>>

\* registerMetrics, the construction: every gauge is built with NewGaugeFrom, which
\* registers it with the default Prometheus registry and panics when a gauge of
\* that name is registered already.  rocksdbMetrics is 0 for nil, otherwise the
\* identity of the Metrics object.
RegisterMetricsConstruct(c) ==
    /\ ~panicked
    /\ calls[c].pc = "construct"
    /\ registered' = registered + 1
    /\ IF registered >= 1
       THEN /\ panicked' = TRUE
            /\ UNCHANGED <<calls, rocksdbMetrics>>
       ELSE /\ rocksdbMetrics' = registered + 1
            /\ calls' = [calls EXCEPT ![c].pc = "go"]
            /\ UNCHANGED panicked
    /\ UNCHANGED <<appOpts, numCPU, disk, reporters, gauges, resolved, parsed>>

\* go reportMetrics(dbName, db, interval); OpenDB returns the database.
Go(c) ==
    /\ ~panicked
    /\ calls[c].pc = "go"
    /\ reporters' = [reporters EXCEPT ![c] =
                        [NoReporter EXCEPT !.pc = "newTicker",
                                           !.dbName = calls[c].dbName,
                                           !.interval = calls[c].interval]]
    /\ calls' = [calls EXCEPT ![c].pc = "done"]
    /\ UNCHANGED <<appOpts, numCPU, disk, rocksdbMetrics, registered, gauges,
                   panicked, resolved, parsed>>

(***************************************************************************)
(* Actions: a reporter goroutine.                                          *)
(***************************************************************************)
\* time.NewTicker(interval) panics for a non-positive interval.
NewTicker(c) ==
    /\ ~panicked
    /\ reporters[c].pc = "newTicker"
    /\ IF reporters[c].interval <= 0
       THEN /\ panicked' = TRUE
            /\ UNCHANGED reporters
       ELSE /\ reporters' = [reporters EXCEPT ![c].pc = "waiting"]
            /\ UNCHANGED panicked
    /\ UNCHANGED <<appOpts, numCPU, disk, calls, rocksdbMetrics, registered, gauges,
                   resolved, parsed>>

\* The loop body with the goroutine returning when a sampling fails.
reportMetricsTickStopOnErr(rep, metrics, sink, read) ==
    LET got == getPropsAndStats(read)
        base == [rep EXCEPT !.ticks = rep.ticks + 1, !.failsBefore = rep.fails,
                            !.sample = read.v, !.lacking = TextLacks[read.text]]
    IN  IF got.err # NoErr
        THEN [rep |-> [base EXCEPT !.outcome = "failed", !.fails = rep.fails + 1,
                                   !.pc = "returned"],
              sink |-> sink]
        ELSE IF metrics = 0
        THEN [rep |-> [base EXCEPT !.outcome = "skipped", !.fails = 0], sink |-> sink]
        ELSE [rep |-> [base EXCEPT !.outcome = "published", !.fails = 0],
              sink |-> report(sink, rep.dbName, got.props, got.stats)]

\* reportMetrics publishing the properties as soon as they are read, before the
\* statistics are parsed and loaded
reportMetricsTickPropsFirst(rep, metrics, sink, read) ==
    LET got == getPropsAndStats(read)
        p == propsLoaderLoad(read)
        base == [rep EXCEPT !.ticks = rep.ticks + 1, !.failsBefore = rep.fails,
                            !.sample = read.v, !.lacking = TextLacks[read.text]]
    IN  IF got.err # NoErr
        THEN [rep |-> [base EXCEPT !.outcome = "failed", !.fails = rep.fails + 1],
              sink |-> IF p.err # NoErr \/ metrics = 0
                       THEN sink
                       ELSE [g \in DOMAIN sink |->
                                IF g[2] = rep.dbName /\ GaugeSource[g[1]][1] = "props"
                                THEN [set |-> TRUE, v |-> p.props[GaugeSource[g[1]][2]]]
                                ELSE sink[g]]]
        ELSE IF metrics = 0
        THEN [rep |-> [base EXCEPT !.outcome = "skipped", !.fails = 0], sink |-> sink]
        ELSE [rep |-> [base EXCEPT !.outcome = "published", !.fails = 0],
              sink |-> report(sink, rep.dbName, got.props, got.stats)]

\* reportMetrics, one iteration of the loop after the ticker fired: the reporter
\* and the sink after it.  ticks, outcome, sample, lacking (the statistics the text
\* of this tick lacked), fails (failed ticks in a row up to this one) and
\* failsBefore (before this one) record the run for the properties.
reportMetricsTick(rep, metrics, sink, read) ==
    LET got == getPropsAndStats(read)
        base == [rep EXCEPT !.ticks = rep.ticks + 1, !.failsBefore = rep.fails,
                            !.sample = read.v, !.lacking = TextLacks[read.text]]
    IN  IF got.err # NoErr
        THEN [rep |-> [base EXCEPT !.outcome = "failed", !.fails = rep.fails + 1],
              sink |-> sink]
        ELSE IF metrics = 0
        THEN [rep |-> [base EXCEPT !.outcome = "skipped", !.fails = 0], sink |-> sink]
        ELSE [rep |-> [base EXCEPT !.outcome = "published", !.fails = 0],
              sink |-> report(sink, rep.dbName, got.props, got.stats)]

\* case <-ticker.C: one tick of the reporter of call c, from the receive to the
\* end of the iteration.
Tick(c) ==
    /\ ~panicked
    /\ reporters[c].pc = "waiting"
    /\ reporters[c].ticks < MaxTicks
    /\ \E read \in Reads :
          \E t \in {reportMetricsTick(reporters[c], rocksdbMetrics, gauges, read)} :
              /\ reporters' = [reporters EXCEPT ![c] = [t.rep EXCEPT !.started = @ + 1]]
              /\ gauges' = t.sink
    /\ UNCHANGED <<appOpts, numCPU, disk, calls, rocksdbMetrics, registered, panicked,
                   resolved, parsed>>

\* case <-ticker.C, the engine answering with a text that drifted
TickDrift(c) ==
    /\ ~panicked
    /\ reporters[c].pc = "waiting"
    /\ reporters[c].ticks < MaxTicks
    /\ \E read \in DriftReads :
          \E t \in {reportMetricsTick(reporters[c], rocksdbMetrics, gauges, read)} :
              /\ reporters' = [reporters EXCEPT ![c] = [t.rep EXCEPT !.started = @ + 1]]
              /\ gauges' = t.sink
    /\ UNCHANGED <<appOpts, numCPU, disk, calls, rocksdbMetrics, registered, panicked,
                   resolved, parsed>>

(***************************************************************************)
(* Actions: the ticker of a reporter and the loop step by step.            *)
(***************************************************************************)
\* time.NewTicker gives ticker.C room for one tick.
TickerCap == 1

\* A ticker whose channel keeps every tick that was not received yet
sendTimeQueued(pending) == pending + 1

\* The ticker's send on ticker.C does not block: with the channel full the tick is
\* dropped.
sendTime(pending) == IF pending < TickerCap THEN pending + 1 ELSE pending

\* The ticker of the reporter of call c fires.
TimerFire(c) ==
    /\ ~panicked
    /\ reporters[c].pc \in {"waiting", "sampling"}
    /\ reporters[c].fired < MaxFires
    /\ reporters' = [reporters EXCEPT ![c].fired = @ + 1,
                                      ![c].pending = sendTime(@)]
    /\ UNCHANGED <<appOpts, numCPU, disk, calls, rocksdbMetrics, registered, gauges,
                   panicked, resolved, parsed>>

\* case <-ticker.C: the loop receives a tick and begins an iteration.
Receive(c) ==
    /\ ~panicked
    /\ reporters[c].pc = "waiting"
    /\ reporters[c].pending > 0
    /\ reporters[c].started < MaxTicks
    /\ reporters' = [reporters EXCEPT ![c].pc = "sampling", ![c].pending = @ - 1,
                                      ![c].started = @ + 1]
    /\ UNCHANGED <<appOpts, numCPU, disk, calls, rocksdbMetrics, registered, gauges,
                   panicked, resolved, parsed>>

\* The iteration: getPropsAndStats and, when it succeeds, report; then the loop
\* waits again.  Reading the handle of a database that was closed is a use of
\* freed engine memory: it answers as any read does, or the process dies.
Iterate(c) ==
    /\ ~panicked
    /\ reporters[c].pc = "sampling"
    /\ \/ \E read \in Reads :
            \E t \in {reportMetricsTick(reporters[c], rocksdbMetrics, gauges, read)} :
                /\ reporters' = [reporters EXCEPT ![c] = [t.rep EXCEPT !.pc = "waiting"]]
                /\ gauges' = t.sink
                /\ UNCHANGED panicked
       \/ /\ calls[c].closed
          /\ panicked' = TRUE
          /\ UNCHANGED <<reporters, gauges>>
    /\ UNCHANGED <<appOpts, numCPU, disk, calls, rocksdbMetrics, registered, resolved,
                   parsed>>

\* The application closes the database an OpenDB call returned.
Close(c) ==
    /\ ~panicked
    /\ calls[c].pc = "done"
    /\ calls[c].opened
    /\ ~calls[c].closed
    /\ calls' = [calls EXCEPT ![c].closed = TRUE,
                              ![c].firedAtClose = reporters[c].fired]
    /\ UNCHANGED <<appOpts, numCPU, disk, rocksdbMetrics, registered, reporters, gauges,
                   panicked, resolved, parsed>>

(***************************************************************************)
(* Action: a call of rocksDBOptions.Get.                                   *)
(***************************************************************************)
ResolverDBNames == DBNames

\* A supported key, and a key whose fallback key is the database-specific key of
\* the first for the database "application".
ResolverKeys == {maxOpenFilesDBOptName, "application." \o maxOpenFilesDBOptName}

ResolverSlots ==
    {FallbackKey(k) : k \in ResolverKeys}
        \cup {DbSpecificKey(d, k) : d \in ResolverDBNames, k \in ResolverKeys}

\* zero, false and the empty string are values, not absence
ResolverValues == {Nil, IntV(0), IntV(5), BoolV(FALSE), StrV("")}

NotResolved == [done |-> FALSE, dbName |-> "", key |-> "", value |-> Nil]

Resolve ==
    /\ \E dbName \in ResolverDBNames, key \in ResolverKeys :
          resolved' = [done |-> TRUE, dbName |-> dbName, key |-> key,
                       value |-> Get(newRocksDBOptions(appOpts, dbName), key)]
    /\ UNCHANGED <<appOpts, numCPU, disk, calls, rocksdbMetrics, registered,
                   reporters, gauges, panicked, parsed>>

(***************************************************************************)
(* Action: a call of parseSerializedStats.  GoodLines gives, for each      *)
(* well-formed line the model draws, the StatEntry it stands for; BadLines *)
(* are lines of neither shape: a value that is no number, a line cut       *)
(* short, a banner, a histogram with a percentile missing.                 *)
(***************************************************************************)
GoodLines ==
    (CounterLine("NumberKeysRead", 4) :> [kind |-> "counter", Count |-> 4])
    @@ (UnknownLine :> [kind |-> "counter", Count |-> 7])
    @@ (HistogramLine("DBWriteStallHistogram", 2, TRUE) :>
            [kind |-> "histogram", P50 |-> 2, P95 |-> 2, P99 |-> 2, P100 |-> 2,
             Count |-> 2, Sum |-> <<2>>])
    @@ (HistogramLine("DBGetMicros", 3, FALSE) :>
            [kind |-> "histogram", P50 |-> 3, P95 |-> 3, P99 |-> 3, P100 |-> 3,
             Count |-> 3, Sum |-> <<>>])

BadLines ==
    {MalformedLine,
     <<"NumberKeysWritten", "COUNT">>,
     <<"**", "DB", "Stats", "**">>,
     <<"DBWriteMicros", "P50", ":", "1", "P99", ":", "1", "P100", ":", "1", "COUNT", ":",
       "1", "SUM", ":", "1">>}

Parse ==
    /\ ~parsed.done
    /\ \E n \in 0..MaxLines :
          \E text \in [1..n -> DOMAIN GoodLines \cup BadLines \cup {<<>>}] :
              \E r \in {parseSerializedStats(text)} :
                  parsed' = [done |-> TRUE, text |-> text, statMap |-> r.statMap,
                             err |-> r.err]
    /\ UNCHANGED <<appOpts, numCPU, disk, calls, rocksdbMetrics, registered,
                   reporters, gauges, panicked, resolved>>

(***************************************************************************)
(* Specifications.                                                         *)
(***************************************************************************)
InitProcess ==
    /\ rocksdbMetrics = 0
    /\ registered = 0
    /\ reporters = [c \in Callers |-> NoReporter]
    /\ gauges = [g \in Series |-> Unset]
    /\ panicked = FALSE
    /\ resolved = NotResolved
    /\ parsed = NotParsed

\* rocksDBOptions.Get over every content of the slots of ResolverKeys
InitResolver ==
    /\ appOpts \in [ResolverSlots -> ResolverValues]
    /\ numCPU \in CPUCounts
    /\ disk = [p \in Paths |-> AbsentEntry]
    /\ calls = [c \in Callers |-> NewCall("", "", "", "off")]
    /\ InitProcess

NextResolver == Resolve

\* parseSerializedStats over every text of up to MaxLines lines
InitParser ==
    /\ appOpts \in {[slot \in {} |-> Nil]}
    /\ numCPU \in CPUCounts
    /\ disk = [p \in Paths |-> AbsentEntry]
    /\ calls = [c \in Callers |-> NewCall("", "", "", "off")]
    /\ InitProcess

SpecParser == InitParser /\ [][Parse]_vars

SpecResolver == InitResolver /\ [][NextResolver]_vars

\* Option sources of one OpenDB call: for one supported key, every content of its
\* fallback key and of its key for "application" (and a value or none for
\* "blockstore"); the sources giving every supported key the same fallback value;
\* and the sources that enable metrics and set the interval.
KeySources(key) ==
    {[slot \in {FallbackKey(key), DbSpecificKey("application", key),
                DbSpecificKey("blockstore", key)} |->
         IF slot = FallbackKey(key) THEN f
         ELSE IF slot = DbSpecificKey("application", key) THEN a ELSE b] :
        f \in OpenValues \cup {Nil}, a \in OpenValues \cup {Nil}, b \in {Nil, IntV(1)}}

FullSources == {[slot \in {FallbackKey(k) : k \in SupportedKeys} |-> v] : v \in OpenValues}

\* Metrics enabled for every database, with every content of the interval key.
MetricsSources ==
    {[slot \in {FallbackKey(enableMetricsOptName),
                FallbackKey(reportMetricsIntervalSecsOptName)} |->
         IF slot = FallbackKey(enableMetricsOptName) THEN BoolV(TRUE) ELSE i] :
        i \in OpenValues \cup {Nil}}

\* The spelling of each supported key in the README's example of a [rocksdb]
\* section: every key with underscores.
ReadmeKey ==
    [key \in SupportedKeys |->
        CASE key = enableMetricsOptName -> "enable_metrics"
          [] key = reportMetricsIntervalSecsOptName -> "report_metrics_interval_secs"
          [] key = maxOpenFilesDBOptName -> "max_open_files"
          [] key = maxFileOpeningThreadsDBOptName -> "max_file_opening_threads"
          [] key = maxBackgroundJobsDBOptName -> "max_background_jobs"
          [] key = writeBufferSizeCFOptName -> "write_buffer_size"
          [] key = numLevelsCFOptName -> "num_levels"
          [] key = asyncIOReadOptName -> "read_async_io"
          [] OTHER -> key]

\* One key of the README's example set under [rocksdb], spelled as there.
ReadmeSources ==
    {[slot \in {"rocksdb." \o ReadmeKey[key]} |-> v] :
        key \in SupportedKeys, v \in {IntV(5), BoolV(TRUE)}}

\* A supported key set to false or to the empty string for "application" while
\* its fallback key holds a non-zero value.
FalsySources ==
    UNION {{[slot \in {FallbackKey(key), DbSpecificKey("application", key)} |->
               IF slot = FallbackKey(key) THEN f ELSE a] :
              f \in {IntV(5), BoolV(TRUE)}, a \in {BoolV(FALSE), StrV("")}} :
           key \in SupportedKeys}

OpenSources ==
    UNION {KeySources(key) : key \in SupportedKeys} \cup FullSources \cup MetricsSources
        \cup ReadmeSources \cup FalsySources

InitOpen ==
    /\ appOpts \in OpenSources
    /\ numCPU \in CPUCounts
    /\ \E e \in DiskEntries : disk = [p \in Paths |-> e]
    /\ calls = [c \in Callers |-> NewCall("", "", "", IF c = 1 THEN "ready" ELSE "off")]
    /\ InitProcess

NextOpen ==
    \E c \in Callers :
        \/ OpenRocksdb(c)
        \/ RegisterMetricsCheck(c)
        \/ RegisterMetricsConstruct(c)
        \/ Go(c)

SpecOpen == InitOpen /\ [][NextOpen]_vars

\* Option sources of the running process: metrics on or off (off for
\* "blockstore" alone), and the reporting interval absent, positive or negative.
ProcessSources ==
    {[slot \in {FallbackKey(enableMetricsOptName),
                DbSpecificKey("blockstore", enableMetricsOptName),
                FallbackKey(reportMetricsIntervalSecsOptName)} |->
         IF slot = FallbackKey(enableMetricsOptName) THEN e
         ELSE IF slot = DbSpecificKey("blockstore", enableMetricsOptName) THEN b
         ELSE i] :
        e \in {Nil, BoolV(TRUE)}, b \in {Nil, BoolV(FALSE)},
        i \in {Nil, IntV(5), IntV(0 - 1)}}

Init ==
    /\ appOpts \in ProcessSources
    /\ numCPU \in CPUCounts
    /\ \E e \in {AbsentEntry, ConfigEntry(<<DefaultColumnFamilyName>>)} :
          disk = [p \in Paths |-> e]
    /\ calls = [c \in Callers |-> NewCall("", "", "", "ready")]
    /\ InitProcess

Next ==
    \E c \in Callers :
        \/ OpenRocksdb(c)
        \/ OpenOtherBackend(c)
        \/ RegisterMetricsCheck(c)
        \/ RegisterMetricsConstruct(c)
        \/ Go(c)
        \/ NewTicker(c)
        \/ Tick(c)

Spec == Init /\ [][Next]_vars

\* One database opened by one caller, sampled by an engine whose statistics
\* text may drift.
InitDrift ==
    /\ appOpts \in ProcessSources
    /\ numCPU \in CPUCounts
    /\ \E e \in {AbsentEntry, ConfigEntry(<<DefaultColumnFamilyName>>)} :
          disk = [p \in Paths |-> e]
    /\ calls = [c \in Callers |-> NewCall("", "", "", IF c = 1 THEN "ready" ELSE "off")]
    /\ InitProcess

NextDrift ==
    \E c \in Callers :
        \/ OpenRocksdb(c)
        \/ RegisterMetricsCheck(c)
        \/ RegisterMetricsConstruct(c)
        \/ Go(c)
        \/ NewTicker(c)
        \/ Tick(c)
        \/ TickDrift(c)

SpecDrift == InitDrift /\ [][NextDrift]_vars

\* One database opened by one caller, under a scheduler that runs every
\* goroutine that can take a step and a ticker that fires.
Fairness ==
    \A c \in Callers :
        /\ WF_vars(RegisterMetricsCheck(c))
        /\ WF_vars(RegisterMetricsConstruct(c))
        /\ WF_vars(Go(c))
        /\ WF_vars(NewTicker(c))
        /\ WF_vars(Tick(c))

SpecLive == InitDrift /\ [][Next]_vars /\ Fairness

\* One database opened by one caller and closed by it; the reporter followed from
\* each firing of its ticker through the receive to the end of the iteration.
\* Metrics are enabled and the interval key holds nothing, zero, a positive or a
\* negative number, or a text that is no number.
TickerSources ==
    {[slot \in {FallbackKey(enableMetricsOptName),
                FallbackKey(reportMetricsIntervalSecsOptName)} |->
         IF slot = FallbackKey(enableMetricsOptName) THEN BoolV(TRUE) ELSE i] :
        i \in {Nil, IntV(0), IntV(5), IntV(0 - 1), StrV("abc")}}

InitTicker ==
    /\ appOpts \in TickerSources
    /\ numCPU \in CPUCounts
    /\ disk = [p \in Paths |-> AbsentEntry]
    /\ calls = [c \in Callers |-> NewCall("", "", "", IF c = 1 THEN "ready" ELSE "off")]
    /\ InitProcess

NextTicker ==
    \E c \in Callers :
        \/ OpenRocksdb(c)
        \/ RegisterMetricsCheck(c)
        \/ RegisterMetricsConstruct(c)
        \/ Go(c)
        \/ NewTicker(c)
        \/ TimerFire(c)
        \/ Receive(c)
        \/ Iterate(c)
        \/ Close(c)

SpecTicker == InitTicker /\ [][NextTicker]_vars

\* An application with the data directories of Dirs, which opens databases of
\* any name in any of them, metrics enabled.
InitDirs ==
    /\ appOpts \in {src \in ProcessSources :
                        src[FallbackKey(enableMetricsOptName)] = BoolV(TRUE)}
    /\ numCPU \in CPUCounts
    /\ disk = [p \in PathsOf(Dirs) |-> AbsentEntry]
    /\ calls = [c \in Callers |-> NewCall("", "", "", "ready")]
    /\ InitProcess

NextDirs ==
    \E c \in Callers :
        \/ OpenRocksdb(c)
        \/ RegisterMetricsCheck(c)
        \/ RegisterMetricsConstruct(c)
        \/ Go(c)
        \/ NewTicker(c)
        \/ Tick(c)

SpecDirs == InitDirs /\ [][NextDirs]_vars

\* The OpenDB calls made one after the other: a call takes no step while another
\* call is inside OpenDB.
Sequential(c) == \A d \in Callers \ {c} : calls[d].pc \in {"ready", "done"}

\* OpenDB entered while no other call is inside it
OpenRocksdbAlone(c) == Sequential(c) /\ OpenRocksdb(c)

OpenOtherBackendAlone(c) == Sequential(c) /\ OpenOtherBackend(c)

NextSequential ==
    \E c \in Callers :
        \/ OpenRocksdbAlone(c)
        \/ OpenOtherBackendAlone(c)
        \/ RegisterMetricsCheck(c)
        \/ RegisterMetricsConstruct(c)
        \/ Go(c)

SpecSequential == Init /\ [][NextSequential]_vars

(***************************************************************************)
(* Properties.                                                             *)
(***************************************************************************)
\* The option a supported key sets: the bundle and field its setter writes and
\* the type its value is cast to.  enable-metrics decides EnableStatistics on the
\* engine-level bundle; the interval is a setting of the reporter, in no bundle.
OptionField(key) ==
    CASE key = maxOpenFilesDBOptName -> <<"db", "max_open_files", "int">>
      [] key = maxFileOpeningThreadsDBOptName -> <<"db", "max_file_opening_threads", "int">>
      [] key = tableCacheNumshardbitsDBOptName -> <<"db", "table_cache_numshardbits", "int">>
      [] key = allowMMAPWritesDBOptName -> <<"db", "allow_mmap_writes", "bool">>
      [] key = allowMMAPReadsDBOptName -> <<"db", "allow_mmap_reads", "bool">>
      [] key = useFsyncDBOptName -> <<"db", "use_fsync", "bool">>
      [] key = useAdaptiveMutexDBOptName -> <<"db", "use_adaptive_mutex", "bool">>
      [] key = bytesPerSyncDBOptName -> <<"db", "bytes_per_sync", "uint64">>
      [] key = maxBackgroundJobsDBOptName -> <<"db", "max_background_jobs", "int">>
      [] key = writeBufferSizeCFOptName -> <<"cf", "write_buffer_size", "uint64">>
      [] key = numLevelsCFOptName -> <<"cf", "num_levels", "int">>
      [] key = maxWriteBufferNumberCFOptName -> <<"cf", "max_write_buffer_number", "int">>
      [] key = minWriteBufferNumberToMergeCFOptName ->
            <<"cf", "min_write_buffer_number_to_merge", "int">>
      [] key = maxBytesForLevelBaseCFOptName -> <<"cf", "max_bytes_for_level_base", "uint64">>
      [] key = maxBytesForLevelMultiplierCFOptName ->
            <<"cf", "max_bytes_for_level_multiplier", "float64">>
      [] key = targetFileSizeBaseCFOptName -> <<"cf", "target_file_size_base", "uint64">>
      [] key = targetFileSizeMultiplierCFOptName ->
            <<"cf", "target_file_size_multiplier", "int">>
      [] key = level0FileNumCompactionTriggerCFOptName ->
            <<"cf", "level0_file_num_compaction_trigger", "int">>
      [] key = level0SlowdownWritesTriggerCFOptName ->
            <<"cf", "level0_slowdown_writes_trigger", "int">>
      [] key = blockCacheSizeBBTOOptName -> <<"bbto", "block_cache", "uint64">>
      [] key = bitsPerKeyBBTOOptName -> <<"bbto", "filter_policy", "float64">>
      [] key = blockSizeBBTOOptName -> <<"bbto", "block_size", "int">>
      [] key = cacheIndexAndFilterBlocksBBTOOptName ->
            <<"bbto", "cache_index_and_filter_blocks", "bool">>
      [] key = pinL0FilterAndIndexBlocksInCacheBBTOOptName ->
            <<"bbto", "pin_l0_filter_and_index_blocks_in_cache", "bool">>
      [] key = formatVersionBBTOOptName -> <<"bbto", "format_version", "int">>
      [] key = asyncIOReadOptName -> <<"read", "async_io", "bool">>
      [] key = enableMetricsOptName -> <<"db", "statistics", "bool">>
      [] key = reportMetricsIntervalSecsOptName -> <<"reporter", "interval", "int64">>

\* Whether the cast of v to the type succeeds (the ...E form returns no error).
Coercible(type, v) ==
    CASE type = "bool" -> BoolCoercible(v)
      [] type = "uint64" -> Uint64Coercible(v)
      [] OTHER -> IntCoercible(v)

\* The number or boolean a configured value means in the type, for a value that
\* is coercible to it: stated from the value itself, not through the casts.
Meaning(type, v) ==
    IF type = "bool"
    THEN CASE v.k = "bool" -> v.n = 1
           [] v.k = "int" -> v.n # 0
           [] v.k = "str" -> v.s \in {"1", "true"}
    ELSE CASE v.k = "int" -> v.n
           [] v.k = "bool" -> v.n
           [] v.k = "str" -> CASE v.s = "0" -> 0
                               [] v.s = "1" -> 1
                               [] v.s = "5" -> 5
                               [] v.s = "-1" -> 0 - 1

\* The slots of the option source in which a supported key can be configured.
SlotsOf(key) == {FallbackKey(key)} \cup {DbSpecificKey(d, key) : d \in DBNames}

\* The option source the OpenDB call c resolves its keys through.
OptsOf(c) == newRocksDBOptions(appOpts, calls[c].dbName)

\* Call c went through openRocksdb and built the bundles (the load gave no error).
Overlaid(c) ==
    /\ calls[c].backend = "rocksdb"
    /\ calls[c].pc \notin {"ready", "off"}
    /\ calls[c].loaded.err = NoErr

\* C1: when the database-specific key "rocksdb.<dbName>.<key>" holds a value,
\* Get(key) returns that value, whatever the fallback key "rocksdb.<key>" holds.
C1_SpecificKeyWins ==
    resolved.done =>
        LET specific == AppOptsGet(appOpts, DbSpecificKey(resolved.dbName, resolved.key))
        IN  specific # Nil => resolved.value = specific

\* a lookup answered by the database-specific key while the fallback key holds
\* another value
C1_Witness ==
    /\ resolved.done
    /\ AppOptsGet(appOpts, DbSpecificKey(resolved.dbName, resolved.key)) = IntV(5)
    /\ AppOptsGet(appOpts, FallbackKey(resolved.key)) = IntV(0)
    /\ resolved.value = IntV(5)

\* C2: when the database-specific key is absent, Get(key) returns what the
\* fallback key holds, and nil (no value, no error) when that is absent too.
C2_FallbackWhenSpecificAbsent ==
    (resolved.done
        /\ AppOptsGet(appOpts, DbSpecificKey(resolved.dbName, resolved.key)) = Nil)
    => LET fallback == AppOptsGet(appOpts, FallbackKey(resolved.key))
       IN  /\ fallback # Nil => resolved.value = fallback
           /\ fallback = Nil => resolved.value = Nil

\* a lookup answered by the fallback key, the database-specific key being absent
C2_Witness ==
    /\ resolved.done
    /\ AppOptsGet(appOpts, DbSpecificKey(resolved.dbName, resolved.key)) = Nil
    /\ AppOptsGet(appOpts, FallbackKey(resolved.key)) = IntV(5)
    /\ resolved.value = IntV(5)

\* The option source holds none of the supported keys, for any database.
HoldsNoSupportedKey ==
    \A key \in SupportedKeys : \A slot \in SlotsOf(key) : AppOptsGet(appOpts, slot) = Nil

\* C3: with an option source that holds none of the supported keys, overrideDBOpts
\* and overrideCFOpts return the bundle they were given: the loaded or default
\* bundle carrying the table options.
C3_OverlayIdentity ==
    \A c \in Callers :
        (Overlaid(c) /\ HoldsNoSupportedKey) =>
            /\ calls[c].dbOpts =
                  SetBlockBasedTableFactory(calls[c].loaded.dbOpts, calls[c].bbto)
            /\ calls[c].cfOpts =
                  SetBlockBasedTableFactory(calls[c].loaded.cfOpts, calls[c].bbto)

\* an existing database opened with no supported key configured, its persisted
\* engine-level and column-family options unchanged
C3_Witness ==
    \E c \in Callers :
        /\ Overlaid(c) /\ HoldsNoSupportedKey /\ calls[c].opened
        /\ calls[c].loaded.dbOpts = PersistedDBOptions
        /\ calls[c].dbOpts.max_open_files = PersistedDBOptions.max_open_files
        /\ calls[c].cfOpts.num_levels = PersistedCFOptions(1).num_levels

\* What call c's key resolves to, stated from the two slots of the option source.
Configured(c, key) ==
    LET specific == AppOptsGet(appOpts, DbSpecificKey(calls[c].dbName, key))
    IN  IF specific # Nil THEN specific ELSE AppOptsGet(appOpts, FallbackKey(key))

\* No key but `key` holds a value in the option source.
OnlyKey(key) ==
    \A slot \in DOMAIN appOpts : appOpts[slot] # Nil => slot \in SlotsOf(key)

\* Every field but the one `key` sets has, in the bundles of call c, the value of
\* the loaded (or default) bundle: the engine-level and column-family bundles
\* against what LoadLatestOptions returned, the table bundle against defaultBBTO,
\* the read bundle against the engine's default read options.
Frame(c, key) ==
    LET of == OptionField(key)
        call == calls[c]
    IN  /\ \A f \in OptionsFields \ {"table_factory"} :
              /\ ~(of[1] = "db" /\ of[2] = f) => call.dbOpts[f] = call.loaded.dbOpts[f]
              /\ ~(of[1] = "cf" /\ of[2] = f) => call.cfOpts[f] = call.loaded.cfOpts[f]
        /\ \A f \in BBTOFields :
              ~(of[1] = "bbto" /\ of[2] = f) =>
                  /\ call.dbOpts.table_factory[f] = defaultBBTO[f]
                  /\ call.cfOpts.table_factory[f] = defaultBBTO[f]
        /\ \A f \in ReadFields :
              ~(of[1] = "read" /\ of[2] = f) => call.readOpts[f] = NewDefaultReadOptions[f]

\* C4: when a single supported key K resolves to a value, the overlay changes the
\* field mapped to K and nothing else: every other field of the engine-level,
\* column-family, read and table bundles keeps its input (or default) value.
C4_OverlayFrame ==
    \A c \in Callers :
        Overlaid(c) => \A key \in SupportedKeys : OnlyKey(key) => Frame(c, key)

\* an existing database opened with num-levels alone configured: num_levels is
\* overridden, max_write_buffer_number is the persisted one
C4_Witness ==
    \E c \in Callers :
        /\ Overlaid(c) /\ calls[c].opened
        /\ OnlyKey(numLevelsCFOptName)
        /\ Configured(c, numLevelsCFOptName) = IntV(5)
        /\ calls[c].loaded.cfOpts.num_levels = 4
        /\ calls[c].cfOpts.num_levels = 5
        /\ calls[c].cfOpts.max_write_buffer_number = 9

\* The value of the field `key` sets in the bundles the engine of call c is
\* opened with.
FieldValue(c, key) ==
    LET of == OptionField(key)
    IN  CASE of[1] = "db" -> calls[c].dbOpts[of[2]]
          [] of[1] = "cf" -> calls[c].cfOpts[of[2]]
          [] of[1] = "bbto" -> calls[c].cfOpts.table_factory[of[2]]
          [] of[1] = "read" -> calls[c].readOpts[of[2]]

\* The supported keys that set a field of a bundle.
BundleKeys == {key \in SupportedKeys : OptionField(key)[1] # "reporter"}

\* C5: for every supported key whose resolved value is present and coercible,
\* the field it maps to in the bundles the engine is opened with equals the
\* coerced configured value, whatever the loaded or default value was, for a
\* database being created and for an existing one.
C5_OverrideWins ==
    \A c \in Callers :
        (Overlaid(c) /\ calls[c].opened) =>
            \A key \in BundleKeys :
                LET v == Configured(c, key)
                    type == OptionField(key)[3]
                IN  (v # Nil /\ Coercible(type, v)) =>
                        /\ FieldValue(c, key) = Meaning(type, v)
                        /\ OptionField(key)[1] = "bbto" =>
                              calls[c].dbOpts.table_factory[OptionField(key)[2]]
                                  = Meaning(type, v)

\* an existing database whose persisted max_open_files is 16384 opened with
\* max-open-files configured as 5
C5_Witness ==
    \E c \in Callers :
        /\ Overlaid(c) /\ calls[c].opened
        /\ calls[c].latestOpts.status = <<>>
        /\ calls[c].loaded.dbOpts.max_open_files = 16384
        /\ Configured(c, maxOpenFilesDBOptName) = IntV(5)
        /\ calls[c].dbOpts.max_open_files = 5

\* Call c resolves some supported key to a value that is present and not
\* coercible to the key's type.
HasNonCoercible(c) ==
    \E key \in SupportedKeys :
        /\ Configured(c, key) # Nil
        /\ ~Coercible(OptionField(key)[3], Configured(c, key))

\* C6: a present, non-coercible value makes OpenDB return an error and the engine
\* is not opened.  The code does not behave so: see C6_SilentZero.
C6_NonCoercibleIsError ==
    \A c \in Callers :
        (calls[c].backend = "rocksdb" /\ calls[c].pc \notin {"ready", "off"}
            /\ HasNonCoercible(c))
        => (calls[c].err # NoErr /\ ~calls[c].opened)

\* What the code does with the value "abc" for max-open-files: the engine is
\* opened, without error, with max_open_files 0.
C6_SilentZero ==
    \E c \in Callers :
        /\ Configured(c, maxOpenFilesDBOptName) = StrV("abc")
        /\ calls[c].opened /\ calls[c].err = NoErr
        /\ calls[c].dbOpts.max_open_files = 0

\* C7: LoadLatestOptions succeeds on a loaded configuration only when it has
\* exactly one column family and that one is named "default", and then returns
\* the persisted options; for any other list of column families (none, several,
\* one of another name) it returns ErrUnexpectedConfiguration and no options,
\* and so does OpenDB.
C7_SingleDefaultColumnFamily ==
    \A c \in Callers :
        (calls[c].backend = "rocksdb" /\ calls[c].pc \notin {"ready", "off"}
            /\ calls[c].latestOpts.status = <<>>)
        => LET found == calls[c].latestOpts
           IN  IF found.cfNames = <<"default">>
               THEN /\ calls[c].loaded.err = NoErr
                    /\ calls[c].loaded.dbOpts = found.dbOpts
                    /\ calls[c].loaded.cfOpts = found.cfOpts[1]
               ELSE /\ calls[c].loaded.err = ErrUnexpectedConfiguration
                    /\ calls[c].loaded.dbOpts = NilOptions
                    /\ calls[c].loaded.cfOpts = NilOptions
                    /\ calls[c].err = ErrUnexpectedConfiguration
                    /\ ~calls[c].opened

\* a configuration whose column families are "default" and "other": refused
C7_Witness ==
    \E c \in Callers :
        /\ calls[c].pc = "done"
        /\ calls[c].latestOpts.status = <<>>
        /\ calls[c].latestOpts.cfNames = <<"default", "other">>
        /\ calls[c].err = ErrUnexpectedConfiguration

\* C8: when the load of the persisted configuration reports not-found,
\* LoadLatestOptions returns the default bundles and no error, and the open goes
\* on to build its options; any other load error is returned by OpenDB as it is,
\* no options are built and the engine is not opened.
C8_NotFoundIsNewDatabase ==
    \A c \in Callers :
        (calls[c].backend = "rocksdb" /\ calls[c].pc \notin {"ready", "off"})
        => LET status == calls[c].latestOpts.status
           IN  /\ status = NotFoundStatus =>
                     /\ calls[c].loaded.err = NoErr
                     /\ calls[c].loaded.dbOpts = newDefaultOptions(numCPU)
                     /\ calls[c].loaded.cfOpts = newDefaultOptions(numCPU)
                     /\ calls[c].bbto # NilOptions
                     /\ calls[c].err \in {NoErr, MkdirErr, GrocksdbErr(IOErrorStatus)}
               /\ status \in OtherLoadErrors =>
                     /\ calls[c].err = [type |-> "grocksdb", msg |-> status]
                     /\ calls[c].dbOpts = NilOptions
                     /\ calls[c].cfOpts = NilOptions
                     /\ ~calls[c].opened

\* a database that did not exist, opened with the default options
C8_Witness ==
    \E c \in Callers :
        /\ calls[c].latestOpts.status = NotFoundStatus
        /\ calls[c].opened /\ calls[c].err = NoErr
        /\ calls[c].loaded.dbOpts = newDefaultOptions(numCPU)
        /\ HoldsNoSupportedKey
        /\ calls[c].dbOpts.max_open_files = 4096

\* The interval, in seconds, expected for a configured value: 15 for no value
\* and for zero, the number for a non-zero number.
ExpectedIntervalSecs(v) ==
    IF v = Nil THEN 15
    ELSE IF Meaning("int64", v) = 0 THEN 15
    ELSE Meaning("int64", v)

\* C9: the reporter's interval is the configured number of seconds when the
\* interval key is present and non-zero, and 15 seconds when it is absent or
\* zero: both as openRocksdb computes it and as the reporter started by the call
\* uses it.
C9_ReportInterval ==
    \A c \in Callers :
        LET v == Configured(c, reportMetricsIntervalSecsOptName)
        IN  (Overlaid(c) /\ (v = Nil \/ Coercible("int64", v))) =>
                /\ calls[c].interval = ExpectedIntervalSecs(v)
                /\ reporters[c].pc # "none" =>
                      reporters[c].interval = ExpectedIntervalSecs(v)

\* a reporter started with the interval key configured as 0: it runs every 15 s
C9_Witness ==
    \E c \in Callers :
        /\ Configured(c, reportMetricsIntervalSecsOptName) = IntV(0)
        /\ reporters[c].pc # "none"
        /\ reporters[c].interval = 15

\* C10: a tick whose sampling fails leaves the reporter in its loop, waiting for
\* the next tick; and a tick whose reads succeed publishes the values read on
\* that very tick to every gauge of its database, however many ticks failed in
\* a row before it.
C10_TickIsolation ==
    [][\A c \in Callers :
          (reporters[c].pc = "waiting" /\ reporters'[c].ticks = reporters[c].ticks + 1)
          => /\ reporters'[c].pc = "waiting"
             /\ reporters'[c].outcome \in {"failed", "published"}
             /\ reporters'[c].outcome = "failed" =>
                   \A g \in GaugeNames :
                       gauges'[<<g, reporters[c].dbName>>] = gauges[<<g, reporters[c].dbName>>]
             /\ reporters'[c].outcome = "published" =>
                   \A g \in GaugeNames :
                       gauges'[<<g, reporters[c].dbName>>] =
                           [set |-> TRUE, v |-> reporters'[c].sample]]_vars

\* a third tick that publishes its own reading, 1, after two failed ticks
C10_Witness ==
    \E c \in Callers :
        /\ reporters[c].pc = "waiting"
        /\ reporters[c].ticks = 3
        /\ reporters[c].failsBefore = 2
        /\ reporters[c].outcome = "published"
        /\ reporters[c].sample = 1
        /\ \A g \in GaugeNames :
              gauges[<<g, reporters[c].dbName>>] = [set |-> TRUE, v |-> 1]

\* C11: the gauges are constructed and registered at most once, and no two
\* callers are both past the test of rocksdbMetrics, about to construct them.
\* registerMetrics takes no lock, so concurrent opens break it: see
\* C11_DoubleConstruct.
C11_RegisteredOnce ==
    /\ registered <= 1
    /\ \A c, d \in Callers :
          (calls[c].pc = "construct" /\ calls[d].pc = "construct") => c = d

\* two concurrent opens both found rocksdbMetrics nil and both constructed the
\* gauges: the second registration panicked
C11_DoubleConstruct ==
    /\ registered = 2
    /\ panicked
    /\ \E c, d \in Callers :
          c # d /\ calls[c].opened /\ calls[d].opened
              /\ calls[c].enableMetrics /\ calls[d].enableMetrics

\* C12: with the opens made one after the other, the gauges are constructed at
\* most once; once rocksdbMetrics is non-nil no step constructs them again and
\* rocksdbMetrics never changes; and a call that passed registerMetrics found
\* them constructed exactly once.
C12_SequentialIdempotence ==
    [][/\ registered' <= 1
       /\ ~panicked'
       /\ rocksdbMetrics # 0 =>
             (rocksdbMetrics' = rocksdbMetrics /\ registered' = registered)
       /\ \A c \in Callers :
             calls'[c].pc = "go" => (registered' = 1 /\ rocksdbMetrics' # 0)]_vars

\* two opens with metrics enabled, one after the other: both started their
\* reporter, the gauges were constructed once
C12_Witness ==
    /\ \A c \in {1, 2} :
          /\ calls[c].pc = "done" /\ calls[c].opened /\ calls[c].enableMetrics
          /\ reporters[c].pc # "none"
    /\ registered = 1
    /\ rocksdbMetrics # 0

\* The gauges of the statistics in lacking
GaugesOf(lacking) ==
    {g \in GaugeNames :
        /\ GaugeSource[g][1] = "stats"
        /\ \/ <<GaugeSource[g][2]>> \in lacking
           \/ Len(GaugeSource[g]) = 3 /\ <<GaugeSource[g][2], GaugeSource[g][3]>> \in lacking}

\* A tick of the reporter of call c is taken in this step
Ticked(c) == reporters'[c].ticks = reporters[c].ticks + 1

\* C13: on a tick whose statistics text has no entry for a recognized statistic,
\* the gauge of that statistic keeps the value it had (it is not set to zero) and
\* every other gauge of the database is set to the value read on that tick.
C13_AbsentMetricSkipped ==
    [][\A c \in Callers :
          (/\ Ticked(c)
           /\ rocksdbMetrics # 0
           /\ \E f \in Statistics : <<f>> \in reporters'[c].lacking)
          => \A g \in GaugeNames :
                IF g \in GaugesOf(reporters'[c].lacking)
                THEN gauges'[<<g, reporters[c].dbName>>] = gauges[<<g, reporters[c].dbName>>]
                ELSE gauges'[<<g, reporters[c].dbName>>]
                        = [set |-> TRUE, v |-> reporters'[c].sample]]_vars

\* C13, what is reached instead: a tick whose text reports 1 for every
\* statistic but NumberKeysRead, which it lacks, sets that gauge to 0.
C13_AbsentSetToZero ==
    \E c \in Callers :
        /\ reporters[c].lacking = {<<"NumberKeysRead">>}
        /\ reporters[c].outcome = "published"
        /\ reporters[c].sample = 1
        /\ gauges[<<"NumberKeysRead", reporters[c].dbName>>] = [set |-> TRUE, v |-> 0]
        /\ gauges[<<"NumberKeysWritten", reporters[c].dbName>>] = [set |-> TRUE, v |-> 1]

\* C14: a database opened with metrics enabled leads to the first tick of its
\* reporter, and that tick, when the reads of the engine succeed, leaves a
\* BlockCacheUsage sample labelled with the database's name and not negative.
C14_FirstSample ==
    \A c \in Callers :
        (/\ calls[c].pc = "done" /\ calls[c].opened /\ calls[c].enableMetrics
         /\ reporters[c].ticks = 0)
            ~> (/\ reporters[c].ticks = 1
                /\ \/ reporters[c].outcome = "failed"
                   \/ /\ gauges[<<"BlockCacheUsage", reporters[c].dbName>>].set
                      /\ gauges[<<"BlockCacheUsage", reporters[c].dbName>>].v >= 0)

\* C14, what is reached instead: the database is open with metrics enabled, and
\* its reporter panicked in time.NewTicker before any tick.
C14_PanicBeforeFirstTick ==
    \E c \in Callers :
        /\ calls[c].pc = "done" /\ calls[c].opened /\ calls[c].enableMetrics
        /\ reporters[c].pc = "newTicker"
        /\ reporters[c].interval < 0
        /\ reporters[c].ticks = 0
        /\ panicked
        /\ \A g \in Series : ~gauges[g].set

\* C15: a key of the README's example set under "rocksdb." with the README's
\* spelling to a coercible value, no database-specific key overriding it, is
\* applied: the field it maps to in the bundles the engine is opened with, or the
\* reporter's interval, is the configured value.
C15_ReadmeSpelling ==
    \A c \in Callers :
        (Overlaid(c) /\ calls[c].opened) =>
            \A key \in SupportedKeys :
                LET v == AppOptsGet(appOpts, "rocksdb." \o ReadmeKey[key])
                    type == OptionField(key)[3]
                IN  (/\ v # Nil
                     /\ Coercible(type, v)
                     /\ AppOptsGet(appOpts, DbSpecificKey(calls[c].dbName, key)) = Nil)
                    => IF key \in BundleKeys
                       THEN FieldValue(c, key) = Meaning(type, v)
                       ELSE calls[c].interval = ExpectedIntervalSecs(v)

\* C15, what is reached instead: an existing database opened with
\* rocksdb.max_open_files = 5 keeps its persisted max_open_files.
C15_ReadmeKeyIgnored ==
    \E c \in Callers :
        /\ Overlaid(c) /\ calls[c].opened
        /\ AppOptsGet(appOpts, "rocksdb.max_open_files") = IntV(5)
        /\ calls[c].loaded.dbOpts.max_open_files = 16384
        /\ calls[c].dbOpts.max_open_files = 16384

\* The text is made of well-formed lines and one line of neither shape between
\* two of them.
OneBadLineBetween(text) ==
    /\ Len(text) >= 3
    /\ \E i \in 2..(Len(text) - 1) :
          /\ text[i] \in BadLines
          /\ \A j \in DOMAIN text \ {i} : text[j] \in DOMAIN GoodLines

\* C16: parsing a text of well-formed lines with one line of neither shape between
\* two of them does not fail; the map has, for every well-formed line, the entry
\* the line stands for under its name (names the reporter does not publish
\* included), and no entry under the name of the other line.
C16_ParserRobustness ==
    (parsed.done /\ OneBadLineBetween(parsed.text)) =>
        /\ parsed.err = NoErr
        /\ DOMAIN parsed.statMap
              = {parsed.text[i][1] : i \in {j \in DOMAIN parsed.text :
                                              parsed.text[j] \in DOMAIN GoodLines}}
        /\ \A i \in DOMAIN parsed.text :
              IF parsed.text[i] \in DOMAIN GoodLines
              THEN parsed.statMap[parsed.text[i][1]] = GoodLines[parsed.text[i]]
              ELSE parsed.text[i][1] \notin DOMAIN parsed.statMap

\* a counter, a line whose value is no number, and a statistic the reporter does
\* not publish: two entries, the unknown one among them
C16_Witness ==
    /\ parsed.done
    /\ parsed.text = <<CounterLine("NumberKeysRead", 4), MalformedLine, UnknownLine>>
    /\ parsed.err = NoErr
    /\ DOMAIN parsed.statMap = {"NumberKeysRead", "rocksdb.number.superversion_acquires"}
    /\ parsed.statMap["rocksdb.number.superversion_acquires"].Count = 7

\* C18: when the persisted configuration of an existing database was loaded and
\* no table-level key resolves to a value, the table options of the column family
\* the engine is opened with are the loaded ones.
C18_TableOptionsPreserved ==
    \A c \in Callers :
        (/\ Overlaid(c)
         /\ calls[c].latestOpts.status = <<>>
         /\ \A key \in SupportedKeys :
               OptionField(key)[1] = "bbto" => Configured(c, key) = Nil)
        => calls[c].cfOpts.table_factory = calls[c].loaded.cfOpts.table_factory

\* C18, what is reached instead: an existing database persisted with 16 KiB
\* blocks, opened with an option source that holds no supported key at all, gets
\* the table options of defaultBBTO.
C18_ReplacedByDefaults ==
    \E c \in Callers :
        /\ Overlaid(c) /\ calls[c].opened
        /\ calls[c].latestOpts.status = <<>>
        /\ HoldsNoSupportedKey
        /\ calls[c].loaded.cfOpts.table_factory = PersistedBBTO
        /\ calls[c].loaded.cfOpts.table_factory.block_size = 16384
        /\ calls[c].cfOpts.table_factory = defaultBBTO
        /\ calls[c].cfOpts.table_factory.block_size = 4096

\* C19: in every open that builds the bundles, the engine-level and the
\* column-family bundle were given the same table options object, so the same
\* block cache (the one bbtoFromAppOpts constructs when block_cache_size resolves
\* to a value, the one of defaultBBTO otherwise) and the same filter policy, and
\* after overrideDBOpts and overrideCFOpts the table options of both bundles are
\* still those.
C19_SharedTableOptions ==
    \A c \in Callers :
        Overlaid(c) =>
            /\ calls[c].tables.dbOpts = calls[c].tables.cfOpts
            /\ calls[c].tables.cfOpts.block_cache[2]
                  = (IF Configured(c, blockCacheSizeBBTOOptName) # Nil
                     THEN "bbtoFromAppOpts" ELSE "defaultBBTO")
            /\ calls[c].dbOpts.table_factory = calls[c].bbto
            /\ calls[c].cfOpts.table_factory = calls[c].bbto

\* a database opened with block_cache_size and num-levels configured: both
\* bundles carry the one cache of 5 bytes that bbtoFromAppOpts constructed
C19_Witness ==
    \E c \in Callers :
        /\ Overlaid(c) /\ calls[c].opened
        /\ Configured(c, blockCacheSizeBBTOOptName) = IntV(5)
        /\ Configured(c, numLevelsCFOptName) = IntV(5)
        /\ calls[c].cfOpts.num_levels = 5
        /\ calls[c].tables.dbOpts.block_cache = <<1, "bbtoFromAppOpts">>
        /\ calls[c].tables.cfOpts.block_cache = <<1, "bbtoFromAppOpts">>
        /\ calls[c].dbOpts.table_factory.block_cache = 5
        /\ calls[c].cfOpts.table_factory.block_cache = 5

\* C20: a tick in which the property reads, the parser or the statistics loader
\* fails sets no gauge of any database, is counted as one failed attempt, and
\* leaves the reporter waiting for the next tick.
C20_FailedTickPublishesNothing ==
    [][\A c \in Callers :
          (Ticked(c) /\ reporters'[c].outcome = "failed") =>
              /\ gauges' = gauges
              /\ reporters'[c].fails = reporters[c].fails + 1
              /\ reporters'[c].pc = "waiting"
              /\ ~panicked']_vars

\* a tick that published 0 for every gauge followed by a failed tick of an engine
\* reporting 1: the gauges still hold 0 and the reporter waits
C20_Witness ==
    \E c \in Callers :
        /\ reporters[c].ticks = 2
        /\ reporters[c].outcome = "failed"
        /\ reporters[c].sample = 1
        /\ reporters[c].pc = "waiting"
        /\ \A g \in GaugeNames : gauges[<<g, reporters[c].dbName>>] = [set |-> TRUE, v |-> 0]

(***************************************************************************)
(* C21.  The ticks of one reporter.                                        *)
(***************************************************************************)
\* C21: within one database's reporter the ticks never overlap, an iteration
\* begins only when every iteration begun before it has completed (so at most
\* one is in progress), and however long an iteration takes ticker.C holds at
\* most one pending tick: missed ticks are dropped, not queued.
C21_TicksNeverOverlap ==
    \A c \in Callers :
        /\ reporters[c].started - reporters[c].ticks \in {0, 1}
        /\ (reporters[c].pc = "sampling") = (reporters[c].started = reporters[c].ticks + 1)
        /\ reporters[c].pending <= 1

\* An iteration that outlasts the interval: the ticker fired twice more while the
\* iteration is in progress, one tick is pending and one was dropped.
C21_Witness ==
    \E c \in Callers :
        /\ reporters[c].pc = "sampling"
        /\ reporters[c].ticks >= 1
        /\ reporters[c].pending = 1
        /\ reporters[c].fired > reporters[c].started + reporters[c].pending

(***************************************************************************)
(* C22.  An OpenDB call that returns an error.                             *)
(***************************************************************************)
\* C22: after an OpenDB call that returned an error no reporter was started for
\* its database and the call registered no metrics; when the error is one of the
\* configuration (the load error or ErrUnexpectedConfiguration) the engine open
\* was never invoked, and an error of the engine open is returned as the engine
\* gave it.
C22_FailedOpenStartsNothing ==
    \A c \in Callers :
        calls[c].pc = "done" /\ calls[c].err # NoErr =>
            /\ reporters[c] = NoReporter
            /\ registered = 0
            /\ rocksdbMetrics = 0
            /\ ~calls[c].opened
            /\ calls[c].loaded.err # NoErr =>
                   ~calls[c].engineOpen /\ calls[c].err = calls[c].loaded.err
            /\ calls[c].err = MkdirErr => ~calls[c].engineOpen
            /\ calls[c].engineOpen =>
                   calls[c].engineErr # NoErr /\ calls[c].err = calls[c].engineErr

\* The engine open failed for a database whose metrics are enabled.
C22_Witness ==
    \E c \in Callers :
        /\ calls[c].pc = "done"
        /\ calls[c].enableMetrics
        /\ calls[c].engineOpen
        /\ calls[c].err = GrocksdbErr(IOErrorStatus)

(***************************************************************************)
(* C23.  The reporter of a database that was closed.                       *)
(***************************************************************************)
\* C23: once a database has been closed its reporter begins no iteration of
\* the loop and completes none, so it makes no property or statistics read on
\* the engine handle.
C23_NoTickAfterClose ==
    [][\A c \in Callers :
          calls[c].closed =>
              /\ reporters'[c].started = reporters[c].started
              /\ reporters'[c].ticks = reporters[c].ticks]_vars

\* C23, what is reached instead: the database is closed, and its reporter has
\* begun and completed an iteration that the ticker fired for after the close
\* (no tick was pending or in progress when the database was closed).
C23_TickAfterClose ==
    \E c \in Callers :
        /\ calls[c].closed
        /\ calls[c].firedAtClose = 0
        /\ reporters[c].pc = "waiting"
        /\ reporters[c].ticks = 1

(***************************************************************************)
(* C24.  The series of concurrently running reporters.                     *)
(***************************************************************************)
\* C24: no two running reporters write the same series: two reporters that
\* have both published (each has set every gauge under its db_name) have
\* different database names, whatever OpenDB calls were made.
C24_DisjointSeries ==
    \A c, d \in Callers :
        (/\ c # d
         /\ reporters[c].outcome = "published"
         /\ reporters[d].outcome = "published")
        => reporters[c].dbName # reporters[d].dbName

\* C24, what is reached instead: databases of one name open in two data
\* directories at once, both reporters running and both having published under
\* that name, with different figures: the series hold those of one of them.
C24_SameNameTwoDirs ==
    \E c, d \in Callers :
        /\ calls[c].dir # calls[d].dir
        /\ calls[c].dbName = calls[d].dbName
        /\ calls[c].opened /\ calls[d].opened
        /\ reporters[c].outcome = "published"
        /\ reporters[d].outcome = "published"
        /\ reporters[c].sample # reporters[d].sample
        /\ \A g \in GaugeNames :
              gauges[<<g, calls[c].dbName>>] = [set |-> TRUE, v |-> reporters[c].sample]

(***************************************************************************)
(* C25.  The series a tick touches.                                        *)
(***************************************************************************)
\* C25: every gauge update of a tick of database D is made under the label
\* db_name = D (a tick that publishes sets every gauge of D), and the tick
\* leaves the series of every other database name as they were.
C25_TickFrame ==
    [][\A c \in Callers :
          Ticked(c) =>
              /\ \A g \in Series :
                    g[2] # reporters[c].dbName => gauges'[g] = gauges[g]
              /\ reporters'[c].outcome = "published" =>
                    \A g \in GaugeNames : gauges'[<<g, reporters[c].dbName>>].set]_vars

\* Two databases of different names whose reporters published different
\* figures: the series of each name hold the figures of its own database.
C25_Witness ==
    \E c, d \in Callers :
        /\ reporters[c].dbName # reporters[d].dbName
        /\ reporters[c].outcome = "published"
        /\ reporters[d].outcome = "published"
        /\ reporters[c].sample # reporters[d].sample
        /\ \A g \in GaugeNames :
              /\ gauges[<<g, reporters[c].dbName>>].v = reporters[c].sample
              /\ gauges[<<g, reporters[d].dbName>>].v = reporters[d].sample

(***************************************************************************)
(* C26.  Presence is absence of nil.                                       *)
(***************************************************************************)
\* C26: a database-specific value that is zero, negative, false or the empty
\* string is the value the key takes, whatever non-zero value the fallback key
\* holds: the field the key sets holds what that value means in the field's
\* type (0 or false for a 0, a false or a value that does not cast), not what
\* the fallback means and not the loaded value; the reporting interval alone
\* takes its default when the value is zero.
C26_PresenceIsNotTruthiness ==
    \A c \in Callers :
        (Overlaid(c) /\ calls[c].opened) =>
            \A key \in SupportedKeys :
                LET specific == AppOptsGet(appOpts, DbSpecificKey(calls[c].dbName, key))
                    type == OptionField(key)[3]
                    val == IF Coercible(type, specific) THEN Meaning(type, specific)
                           ELSE IF type = "bool" THEN FALSE ELSE 0
                IN  specific \in {IntV(0), IntV(0 - 1), BoolV(FALSE), StrV("")} =>
                       IF key \in BundleKeys
                       THEN FieldValue(c, key) = val
                       ELSE calls[c].interval
                               = (IF val = 0 THEN defaultReportMetricsIntervalSecs ELSE val)

\* An existing database whose persisted max_open_files is 16384, opened with
\* max-open-files 0 for the database and 5 as fallback: the field is 0.
C26_Witness ==
    \E c \in Callers :
        /\ Overlaid(c) /\ calls[c].opened
        /\ calls[c].loaded.dbOpts.max_open_files = 16384
        /\ AppOptsGet(appOpts, DbSpecificKey(calls[c].dbName, maxOpenFilesDBOptName)) = IntV(0)
        /\ AppOptsGet(appOpts, FallbackKey(maxOpenFilesDBOptName)) = IntV(5)
        /\ calls[c].dbOpts.max_open_files = 0

(***************************************************************************)
(* C27.  Metrics only for RocksDB databases that enable them.              *)
(***************************************************************************)
\* Call c opens a RocksDB database for which enable-metrics holds a true value.
Metered(c) ==
    /\ calls[c].backend = "rocksdb"
    /\ Configured(c, enableMetricsOptName) # Nil
    /\ Coercible("bool", Configured(c, enableMetricsOptName))
    /\ Meaning("bool", Configured(c, enableMetricsOptName))

\* C27: OpenDB enables the engine statistics, reaches registerMetrics and starts
\* a reporter only for a RocksDB database whose enable-metrics resolves to true;
\* the registry is created only when such a database was opened, and no gauge
\* is ever set under a database name for which no such database was opened.
C27_MetricsOnlyWhenEnabled ==
    /\ \A c \in Callers :
          ~Metered(c) =>
              /\ reporters[c] = NoReporter
              /\ calls[c].pc \notin {"registerMetrics", "construct", "go"}
              /\ calls[c].dbOpts # NilOptions => ~calls[c].dbOpts.statistics
    /\ (registered > 0 \/ rocksdbMetrics # 0) =>
          \E c \in Callers : Metered(c) /\ calls[c].opened
    /\ \A g \in Series :
          gauges[g].set =>
              \E c \in Callers : Metered(c) /\ calls[c].opened /\ calls[c].dbName = g[2]

\* "blockstore" is open as a RocksDB database with enable-metrics false for it,
\* while the reporter of "application" has published: the statistics of
\* "blockstore" are off and no series of it is set.
C27_Witness ==
    \E c, d \in Callers :
        /\ calls[c].backend = "rocksdb" /\ calls[c].opened /\ calls[c].pc = "done"
        /\ calls[c].dbName = "blockstore"
        /\ Configured(c, enableMetricsOptName) = BoolV(FALSE)
        /\ ~calls[c].dbOpts.statistics
        /\ reporters[c] = NoReporter
        /\ calls[d].dbName = "application"
        /\ reporters[d].outcome = "published"
        /\ \A g \in GaugeNames : ~gauges[<<g, "blockstore">>].set

(***************************************************************************)
(* C28.  The interval of the reporter's ticker.                            *)
(***************************************************************************)
\* C28: whatever report-metrics-interval-secs holds (nothing, zero, a positive
\* or a negative number, a text that is no number), the interval a reporter
\* hands to its ticker is strictly positive and the reporter does not fail in
\* starting the ticker.
C28_IntervalPositive ==
    \A c \in Callers :
        reporters[c].pc # "none" =>
            /\ reporters[c].interval > 0
            /\ ~(panicked /\ reporters[c].pc = "newTicker")

\* C28, what is reached instead: with the key holding -1 the database is
\* open and returned, and its reporter was started with -1 seconds and
\* panicked in time.NewTicker.
C28_NegativeIntervalPanics ==
    \E c \in Callers :
        /\ appOpts[FallbackKey(reportMetricsIntervalSecsOptName)] = IntV(0 - 1)
        /\ calls[c].opened /\ calls[c].err = NoErr /\ calls[c].pc = "done"
        /\ reporters[c].pc = "newTicker"
        /\ reporters[c].interval = 0 - 1
        /\ panicked

====
